---------------------------- MODULE Spec2Model ----------------------------
(***************************************************************************)
(* A model of the event-extraction engine of the maritime event extractor  *)
(* (src/backend/enhanced_maritime_extractor.py, class                      *)
(* EnhancedMaritimeExtractor).                                             *)
(*                                                                         *)
(* Representation.  A Python str is a sequence of one-character strings,   *)
(* so that slicing, strip(), lower(), substring tests and regular          *)
(* expression matching are computed character by character, as the code   *)
(* computes them.  Python's None is the value None below.  Labels the code *)
(* never looks inside (event_type, event, extraction_method) are TLA+      *)
(* strings.  A confidence is kept in hundredths (0.95 is 95).              *)
(***************************************************************************)
EXTENDS Integers, Sequences, FiniteSets, TLC

VARIABLES
  extractors,  \* the EnhancedMaritimeExtractor objects constructed in this process
  loads,       \* the calls of spacy.load("en_core_web_sm") made in this process
  lookups,     \* the calls of self._extract_vessel_name the latest extract_events call made
  nlp,         \* self.nlp of the latest extractor: "none" when spacy.load failed, else the engine
  text,        \* the argument of the latest extract_events call (None before the first)
  events,      \* the sequence that call returned
  prevEvents,  \* <<what the call before it returned>> when that had the same text, else <<>>
  now,         \* the wall clock datetime.now() reads
  x,           \* the pure-function specifications: the input drawn in Init;
               \*   the threads: the call of every thread
  y,           \*   the result of the first application; the threads: the memory
  z,           \*   the result of the second application; the threads: what the calls returned
  pc           \* "run": the process is running; "raised": a call let an exception
               \*   out; the pure-function specifications: the step reached;
               \*   the threads: the statement every thread is at

vars == <<extractors, loads, lookups, nlp, text, events, prevEvents, now, x, y, z, pc>>

\* Python's None: a value different from every str (no str has a
\* four-character element).
None == <<"None">>

\* Python truthiness of an Optional[str]: None and '' are false.
Truthy(v) == v # None /\ v # <<>>

-----------------------------------------------------------------------------
(* Characters *)

Digit == {"0", "1", "2", "3", "4", "5", "6", "7", "8", "9"}

\* the lower-case letters; [A-Za-z] under re.IGNORECASE on lower-cased text
Letter == {"a", "b", "c", "d", "e", "f", "g", "h", "i", "j", "k", "l", "m",
           "n", "o", "p", "q", "r", "s", "t", "u", "v", "w", "x", "y", "z"}

Upper == {"A", "B", "C", "D", "E", "F", "G", "H", "I", "J", "K", "L", "M",
          "N", "O", "P", "Q", "R", "S", "T", "U", "V", "W", "X", "Y", "Z"}

\* \s, and what str.strip() and str.split() remove
Space == {" ", "\t", "\n", "\r"}

\* str.lower() of one character
LowerTable ==
  [c \in Upper |->
     CASE c = "A" -> "a" [] c = "B" -> "b" [] c = "C" -> "c" [] c = "D" -> "d"
       [] c = "E" -> "e" [] c = "F" -> "f" [] c = "G" -> "g" [] c = "H" -> "h"
       [] c = "I" -> "i" [] c = "J" -> "j" [] c = "K" -> "k" [] c = "L" -> "l"
       [] c = "M" -> "m" [] c = "N" -> "n" [] c = "O" -> "o" [] c = "P" -> "p"
       [] c = "Q" -> "q" [] c = "R" -> "r" [] c = "S" -> "s" [] c = "T" -> "t"
       [] c = "U" -> "u" [] c = "V" -> "v" [] c = "W" -> "w" [] c = "X" -> "x"
       [] c = "Y" -> "y" [] c = "Z" -> "z"]

LowerOf(c) == IF c \in Upper THEN LowerTable[c] ELSE c

\* str.lower()
Lower(s) == SubSeq([i \in 1..Len(s) |-> LowerOf(s[i])], 1, Len(s))

\* s[a:b] of Python with 0 <= a, b: the characters at 1-based positions a+1 .. b
Slice(s, a, b) == SubSeq(s, a + 1, IF b > Len(s) THEN Len(s) ELSE b)

\* str.strip(): without the leading and the trailing whitespace
Strip(s) ==
  LET Solid(i) == s[i] \notin Space
      first == CHOOSE i \in 1..(Len(s) + 1) :
                 (i = Len(s) + 1 \/ Solid(i)) /\ \A j \in 1..(i - 1) : ~Solid(j)
      cut == CHOOSE k \in 0..Len(s) :
               (k = Len(s) \/ Solid(Len(s) - k)) /\ \A j \in 0..(k - 1) : ~Solid(Len(s) - j)
  IN SubSeq(s, first, Len(s) - cut)

\* kw in s, for str
Contains(s, kw) ==
  \E i \in 0..(Len(s) - Len(kw)) : \A j \in 1..Len(kw) : s[i + j] = kw[j]

\* any(keyword in s for keyword in kws)
ContainsAny(s, kws) == \E k \in 1..Len(kws) : Contains(s, kws[k])

\* the concatenation of the sequences ss[lo], ..., ss[hi]
RECURSIVE FlattenRange(_, _, _)
FlattenRange(ss, lo, hi) ==
  IF lo > hi THEN <<>>
  ELSE IF lo = hi THEN ss[lo]
  ELSE LET mid == (lo + hi) \div 2
       IN FlattenRange(ss, lo, mid) \o FlattenRange(ss, mid + 1, hi)

Flatten(ss) == FlattenRange(ss, 1, Len(ss))

\* the members of the set S of integers that lie in lo..hi, in increasing order
RECURSIVE Ascending(_, _, _)
Ascending(S, lo, hi) ==
  IF lo > hi THEN <<>>
  ELSE IF lo = hi THEN (IF lo \in S THEN <<lo>> ELSE <<>>)
  ELSE LET mid == (lo + hi) \div 2
       IN Ascending(S, lo, mid) \o Ascending(S, mid + 1, hi)

-----------------------------------------------------------------------------
(***************************************************************************)
(* Regular expressions: the part of Python's re the code uses.  A pattern  *)
(* is a tree.  re tries the ways to match a pattern in a fixed order       *)
(* (alternatives left to right, a greedy repeat longest first, a lazy      *)
(* repeat shortest first, an optional part before its absence) and takes   *)
(* the first that succeeds; Match computes all the ways, in that order.    *)
(* It runs on the lower-cased text because every pattern is compiled       *)
(* case-insensitive.                                                       *)
(***************************************************************************)

\* the upper limit of *, + and +?
Unbounded == 0 - 1

Lit(cs) == [k |-> "lit", cs |-> cs]
Cls(set, lo, hi, greedy) == [k |-> "cls", set |-> set, lo |-> lo, hi |-> hi, greedy |-> greedy]
Cat(xs) == [k |-> "seq", xs |-> xs]
Alt(xs) == [k |-> "alt", xs |-> xs]
Opt(r) == [k |-> "opt", r |-> r]
Cap(n, r) == [k |-> "cap", n |-> n, r |-> r]
AtEnd == [k |-> "end"]

\* a function with domain 1..n as a tuple
Tuple(f) == SubSeq(f, 1, Len(f))

\* the number of characters of `set` at s[pos], s[pos+1], ..., at most hi:
\* the least k at which the run stops
RunLen(s, pos, set, hi) ==
  LET n == IF hi = Unbounded \/ hi > Len(s) + 1 - pos THEN Len(s) + 1 - pos ELSE hi
      Stops(k) == k = n \/ s[pos + k] \notin set
  IN CHOOSE k \in 0..n : Stops(k) /\ \A j \in 0..(k - 1) : ~Stops(j)

LitAt(s, pos, cs) ==
  /\ pos + Len(cs) - 1 <= Len(s)
  /\ \A j \in 1..Len(cs) : s[pos + j - 1] = cs[j]

\* a repeat of a character class from the state st: the lengths it may take,
\* longest first when greedy, shortest first when lazy
Repeats(r, s, st) ==
  LET n == RunLen(s, st[1], r.set, r.hi)
  IN IF n < r.lo THEN <<>>
     ELSE [j \in 1..(n - r.lo + 1) |->
             <<st[1] + (IF r.greedy THEN n - j + 1 ELSE r.lo + j - 1), st[2]>>]

\* $: at the end of s, or before a line break that ends s
IsAtEnd(s, pos) == pos = Len(s) + 1 \/ (pos = Len(s) /\ s[pos] = "\n")

\* Match(r, s, sts): a state is <<pos, caps>>, a position of s and the spans
\* <<first, last + 1>> of the groups (<<0, 0>> while unset).  sts are the
\* states before r, in re's order of preference; the result is the states
\* after r, in that order.
RECURSIVE Match(_, _, _)
RECURSIVE MatchRange(_, _, _, _, _)

Match(r, s, sts) ==
  IF sts = <<>> THEN <<>>
  ELSE
    CASE r.k = "lit" ->
           LET ok == SelectSeq(sts, LAMBDA st : LitAt(s, st[1], r.cs))
           IN Tuple([i \in 1..Len(ok) |-> <<ok[i][1] + Len(r.cs), ok[i][2]>>])
      [] r.k = "cls" -> Flatten([i \in 1..Len(sts) |-> Repeats(r, s, sts[i])])
      [] r.k = "seq" -> MatchRange(r.xs, 1, Len(r.xs), s, sts)
      [] r.k = "alt" ->
           Flatten([i \in 1..Len(sts) |->
                      Flatten([j \in 1..Len(r.xs) |-> Match(r.xs[j], s, <<sts[i]>>)])])
      [] r.k = "opt" ->
           Flatten([i \in 1..Len(sts) |-> Match(r.r, s, <<sts[i]>>) \o <<sts[i]>>])
      [] r.k = "cap" ->
           LET opened == Tuple([i \in 1..Len(sts) |->
                                  <<sts[i][1], [sts[i][2] EXCEPT ![r.n] = <<sts[i][1], 0>>]>>])
               inner == Match(r.r, s, opened)
           IN Tuple([i \in 1..Len(inner) |->
                       <<inner[i][1],
                         [inner[i][2] EXCEPT ![r.n] = <<inner[i][2][r.n][1], inner[i][1]>>]>>])
      [] r.k = "end" -> SelectSeq(sts, LAMBDA st : IsAtEnd(s, st[1]))

\* the patterns xs[lo], ..., xs[hi] one after the other
MatchRange(xs, lo, hi, s, sts) ==
  IF lo > hi \/ sts = <<>> THEN sts
  ELSE IF lo = hi THEN Match(xs[lo], s, sts)
  ELSE LET mid == (lo + hi) \div 2
       IN MatchRange(xs, mid + 1, hi, s, MatchRange(xs, lo, mid, s, sts))

\* whether the pattern r matches s from its first character (re.match)
Matches(r, s) == Match(r, s, << <<1, <<>> >> >>) # <<>>

NoMatch == <<>>

\* one attempt of pattern p at position pos of the lower-cased text s: the
\* first way to match, <<end, caps>>, or NoMatch
Attempt(p, s, pos) ==
  LET ways == Match(p.re, s, << <<pos, [n \in 1..p.ngroups |-> <<0, 0>>]>> >>)
  IN IF ways = <<>> THEN NoMatch ELSE ways[1]

\* the positions of s where p matches, each with its match
Hits(p, s) ==
  {h \in {<<q, Attempt(p, s, q)>> : q \in 1..(Len(s) + 1)} : h[2] # NoMatch}

\* the leftmost match from pos on, then the matches after its end
\* (non-overlapping).  A match is [start, end, caps], 1-based, end exclusive.
RECURSIVE ScanFrom(_, _)
ScanFrom(hits, pos) ==
  LET later == {h \in hits : h[1] >= pos}
      h == CHOOSE a \in later : \A b \in later : a[1] <= b[1]
      end == h[2][1]
  IN IF later = {} THEN <<>>
     ELSE <<[start |-> h[1], end |-> end, caps |-> h[2][2]]>>
          \o ScanFrom(hits, IF end = h[1] THEN end + 1 ELSE end)

\* a scan that takes a match only where a word begins and ends
finditer_whole_words(p, t) ==
  LET s == Lower(t)
      InWord(i) == i \in 1..Len(s) /\ s[i] \in Letter \cup Digit \cup {"_"}
  IN ScanFrom({h \in Hits(p, s) : ~InWord(h[1] - 1) /\ ~InWord(h[2][1])}, 1)

\* re.finditer(pattern, text, re.IGNORECASE)
finditer(p, t) == ScanFrom(Hits(p, Lower(t)), 1)

\* re.search(pattern, text): the leftmost match, as a sequence of one match;
\* the empty sequence is the None of no match
search(p, t) == LET ms == finditer(p, t) IN IF ms = <<>> THEN <<>> ELSE <<ms[1]>>

\* match.group(0)
group0(m, t) == SubSeq(t, m.start, m.end - 1)

\* match.groups(): the captured substrings (None for a group that took no part)
groups(m, t) ==
  [n \in 1..Len(m.caps) |->
     IF m.caps[n] = <<0, 0>> THEN None ELSE SubSeq(t, m.caps[n][1], m.caps[n][2] - 1)]

\* \s+ and \s*
S1 == Cls(Space, 1, Unbounded, TRUE)
S0 == Cls(Space, 0, Unbounded, TRUE)
\* [:=]
ColonEq == Cls({":", "="}, 1, 1, TRUE)
\* \d{4}
HhmmRe == Cls(Digit, 4, 4, TRUE)
\* \d{1,2}:\d{2}
ClockRe == Cat(<<Cls(Digit, 1, 2, TRUE), Lit(<<":">>), Cls(Digit, 2, 2, TRUE)>>)
\* \d{1,2}[\.\/\-]\d{1,2}[\.\/\-]\d{4}
DateRe ==
  Cat(<<Cls(Digit, 1, 2, TRUE), Cls({".", "/", "-"}, 1, 1, TRUE),
        Cls(Digit, 1, 2, TRUE), Cls({".", "/", "-"}, 1, 1, TRUE),
        Cls(Digit, 4, 4, TRUE)>>)

\* self.event_patterns, the catalog _initialize_patterns returns.  The
\* patterns are those of the source, lower-cased; each is quoted above its
\* tree.  confidence is in hundredths.
event_patterns ==
  <<
    \* Vessel Arrived at Port
    [type |-> "arrival", name |-> "Vessel Arrived at Port", confidence |-> 95,
     patterns |-> <<
       \* (?i)vessel\s+arrived\s+(?:at\s+)?([A-Za-z\s]+?)(?:\s+port\s+limits?)?\s*[:=]\s*(\d{4})\s*hrs?\s*(\d{1,2}[\.\/\-]\d{1,2}[\.\/\-]\d{4})
       [ngroups |-> 3, re |->
          Cat(<<Lit(<<"v", "e", "s", "s", "e", "l">>), S1, Lit(<<"a", "r", "r",
          "i", "v", "e", "d">>), S1, Opt(Cat(<<Lit(<<"a", "t">>), S1>>)),
          Cap(1, Cls(Letter \cup Space, 1, Unbounded, FALSE)), Opt(Cat(<<S1,
          Lit(<<"p", "o", "r", "t">>), S1, Lit(<<"l", "i", "m", "i", "t">>),
          Cls({"s"}, 0, 1, TRUE)>>)), S0, ColonEq, S0, Cap(2, HhmmRe), S0,
          Lit(<<"h", "r">>), Cls({"s"}, 0, 1, TRUE), S0, Cap(3, DateRe)>>)],
       \* (?i)vessel\s+arrived\s*[:=]\s*(\d{4})\s*hrs?\s*(\d{1,2}[\.\/\-]\d{1,2}[\.\/\-]\d{4})
       [ngroups |-> 2, re |->
          Cat(<<Lit(<<"v", "e", "s", "s", "e", "l">>), S1, Lit(<<"a", "r", "r",
          "i", "v", "e", "d">>), S0, ColonEq, S0, Cap(1, HhmmRe), S0,
          Lit(<<"h", "r">>), Cls({"s"}, 0, 1, TRUE), S0, Cap(2, DateRe)>>)],
       \* (?i)arrived\s+(?:at\s+)?([A-Za-z\s]+?)(?:\s+port\s+limits?)?\s*[:=]\s*(\d{4})\s*hrs?\s*(\d{1,2}[\.\/\-]\d{1,2}[\.\/\-]\d{4})
       [ngroups |-> 3, re |->
          Cat(<<Lit(<<"a", "r", "r", "i", "v", "e", "d">>), S1,
          Opt(Cat(<<Lit(<<"a", "t">>), S1>>)), Cap(1, Cls(Letter \cup Space, 1,
          Unbounded, FALSE)), Opt(Cat(<<S1, Lit(<<"p", "o", "r", "t">>), S1,
          Lit(<<"l", "i", "m", "i", "t">>), Cls({"s"}, 0, 1, TRUE)>>)), S0,
          ColonEq, S0, Cap(2, HhmmRe), S0, Lit(<<"h", "r">>), Cls({"s"}, 0, 1,
          TRUE), S0, Cap(3, DateRe)>>)],
       \* (?i)arrived\s*[:=]\s*(\d{4})\s*hrs?\s*(\d{1,2}[\.\/\-]\d{1,2}[\.\/\-]\d{4})
       [ngroups |-> 2, re |->
          Cat(<<Lit(<<"a", "r", "r", "i", "v", "e", "d">>), S0, ColonEq, S0,
          Cap(1, HhmmRe), S0, Lit(<<"h", "r">>), Cls({"s"}, 0, 1, TRUE), S0,
          Cap(2, DateRe)>>)]
     >>],
    \* Vessel Dropped Anchor
    [type |-> "arrival", name |-> "Vessel Dropped Anchor", confidence |-> 95,
     patterns |-> <<
       \* (?i)(?:vessel\s+)?dropped\s+anchor\s*[:=]\s*(\d{4})\s*hrs?\s*(\d{1,2}[\.\/\-]\d{1,2}[\.\/\-]\d{4})
       [ngroups |-> 2, re |->
          Cat(<<Opt(Cat(<<Lit(<<"v", "e", "s", "s", "e", "l">>), S1>>)),
          Lit(<<"d", "r", "o", "p", "p", "e", "d">>), S1, Lit(<<"a", "n", "c",
          "h", "o", "r">>), S0, ColonEq, S0, Cap(1, HhmmRe), S0, Lit(<<"h",
          "r">>), Cls({"s"}, 0, 1, TRUE), S0, Cap(2, DateRe)>>)],
       \* (?i)(?:vessel\s+)?dropped\s+anchor\s+(?:at\s+)?(\d{1,2}:\d{2})(?:\s+on\s+)?(\d{1,2}[\.\/\-]\d{1,2}[\.\/\-]\d{4})
       [ngroups |-> 2, re |->
          Cat(<<Opt(Cat(<<Lit(<<"v", "e", "s", "s", "e", "l">>), S1>>)),
          Lit(<<"d", "r", "o", "p", "p", "e", "d">>), S1, Lit(<<"a", "n", "c",
          "h", "o", "r">>), S1, Opt(Cat(<<Lit(<<"a", "t">>), S1>>)), Cap(1,
          ClockRe), Opt(Cat(<<S1, Lit(<<"o", "n">>), S1>>)), Cap(2, DateRe)>>)],
       \* (?i)anchored\s*[:=]\s*(\d{4})\s*hrs?\s*(\d{1,2}[\.\/\-]\d{1,2}[\.\/\-]\d{4})
       [ngroups |-> 2, re |->
          Cat(<<Lit(<<"a", "n", "c", "h", "o", "r", "e", "d">>), S0, ColonEq,
          S0, Cap(1, HhmmRe), S0, Lit(<<"h", "r">>), Cls({"s"}, 0, 1, TRUE),
          S0, Cap(2, DateRe)>>)]
     >>],
    \* Vessel at Anchorage
    [type |-> "arrival", name |-> "Vessel at Anchorage", confidence |-> 90,
     patterns |-> <<
       \* (?i)vessel\s+(?:at\s+)?anchorage\s*[:=]\s*(\d{4})\s*hrs?\s*(\d{1,2}[\.\/\-]\d{1,2}[\.\/\-]\d{4})
       [ngroups |-> 2, re |->
          Cat(<<Lit(<<"v", "e", "s", "s", "e", "l">>), S1, Opt(Cat(<<Lit(<<"a",
          "t">>), S1>>)), Lit(<<"a", "n", "c", "h", "o", "r", "a", "g", "e">>),
          S0, ColonEq, S0, Cap(1, HhmmRe), S0, Lit(<<"h", "r">>), Cls({"s"}, 0,
          1, TRUE), S0, Cap(2, DateRe)>>)],
       \* (?i)at\s+anchorage\s*[:=]\s*(\d{4})\s*hrs?\s*(\d{1,2}[\.\/\-]\d{1,2}[\.\/\-]\d{4})
       [ngroups |-> 2, re |->
          Cat(<<Lit(<<"a", "t">>), S1, Lit(<<"a", "n", "c", "h", "o", "r", "a",
          "g", "e">>), S0, ColonEq, S0, Cap(1, HhmmRe), S0, Lit(<<"h", "r">>),
          Cls({"s"}, 0, 1, TRUE), S0, Cap(2, DateRe)>>)]
     >>],
    \* Pilot Boarded
    [type |-> "pilot", name |-> "Pilot Boarded", confidence |-> 95,
     patterns |-> <<
       \* (?i)pilot\s+(?:boarded|embarked)(?:\s+the\s+vessel\s+for\s+berthing)?\s*[:=]\s*(\d{4})\s*hrs?\s*(\d{1,2}[\.\/\-]\d{1,2}[\.\/\-]\d{4})
       [ngroups |-> 2, re |->
          Cat(<<Lit(<<"p", "i", "l", "o", "t">>), S1, Alt(<<Lit(<<"b", "o",
          "a", "r", "d", "e", "d">>), Lit(<<"e", "m", "b", "a", "r", "k", "e",
          "d">>)>>), Opt(Cat(<<S1, Lit(<<"t", "h", "e">>), S1, Lit(<<"v", "e",
          "s", "s", "e", "l">>), S1, Lit(<<"f", "o", "r">>), S1, Lit(<<"b",
          "e", "r", "t", "h", "i", "n", "g">>)>>)), S0, ColonEq, S0, Cap(1,
          HhmmRe), S0, Lit(<<"h", "r">>), Cls({"s"}, 0, 1, TRUE), S0, Cap(2,
          DateRe)>>)],
       \* (?i)pilot\s+(?:boarded|embarked)(?:\s+at\s+)?(\d{1,2}:\d{2})(?:\s+on\s+)?(\d{1,2}[\.\/\-]\d{1,2}[\.\/\-]\d{4})
       [ngroups |-> 2, re |->
          Cat(<<Lit(<<"p", "i", "l", "o", "t">>), S1, Alt(<<Lit(<<"b", "o",
          "a", "r", "d", "e", "d">>), Lit(<<"e", "m", "b", "a", "r", "k", "e",
          "d">>)>>), Opt(Cat(<<S1, Lit(<<"a", "t">>), S1>>)), Cap(1, ClockRe),
          Opt(Cat(<<S1, Lit(<<"o", "n">>), S1>>)), Cap(2, DateRe)>>)],
       \* (?i)pilot\s+(?:boarded|embarked)
       [ngroups |-> 0, re |->
          Cat(<<Lit(<<"p", "i", "l", "o", "t">>), S1, Alt(<<Lit(<<"b", "o",
          "a", "r", "d", "e", "d">>), Lit(<<"e", "m", "b", "a", "r", "k", "e",
          "d">>)>>)>>)]
     >>],
    \* Pilot Disembarked
    [type |-> "pilot", name |-> "Pilot Disembarked", confidence |-> 95,
     patterns |-> <<
       \* (?i)pilot\s+disembarked\s*[:=]\s*(\d{4})\s*hrs?\s*(\d{1,2}[\.\/\-]\d{1,2}[\.\/\-]\d{4})
       [ngroups |-> 2, re |->
          Cat(<<Lit(<<"p", "i", "l", "o", "t">>), S1, Lit(<<"d", "i", "s", "e",
          "m", "b", "a", "r", "k", "e", "d">>), S0, ColonEq, S0, Cap(1,
          HhmmRe), S0, Lit(<<"h", "r">>), Cls({"s"}, 0, 1, TRUE), S0, Cap(2,
          DateRe)>>)],
       \* (?i)pilot\s+disembarked\s+(?:at\s+)?(\d{1,2}:\d{2})(?:\s+on\s+)?(\d{1,2}[\.\/\-]\d{1,2}[\.\/\-]\d{4})
       [ngroups |-> 2, re |->
          Cat(<<Lit(<<"p", "i", "l", "o", "t">>), S1, Lit(<<"d", "i", "s", "e",
          "m", "b", "a", "r", "k", "e", "d">>), S1, Opt(Cat(<<Lit(<<"a",
          "t">>), S1>>)), Cap(1, ClockRe), Opt(Cat(<<S1, Lit(<<"o", "n">>),
          S1>>)), Cap(2, DateRe)>>)],
       \* (?i)pilot\s+disembarked
       [ngroups |-> 0, re |->
          Cat(<<Lit(<<"p", "i", "l", "o", "t">>), S1, Lit(<<"d", "i", "s", "e",
          "m", "b", "a", "r", "k", "e", "d">>)>>)]
     >>],
    \* First Line Ashore
    [type |-> "berthing", name |-> "First Line Ashore", confidence |-> 95,
     patterns |-> <<
       \* (?i)first\s+line\s+ashore\s*[:=]\s*(\d{4})\s*hrs?\s*(\d{1,2}[\.\/\-]\d{1,2}[\.\/\-]\d{4})
       [ngroups |-> 2, re |->
          Cat(<<Lit(<<"f", "i", "r", "s", "t">>), S1, Lit(<<"l", "i", "n",
          "e">>), S1, Lit(<<"a", "s", "h", "o", "r", "e">>), S0, ColonEq, S0,
          Cap(1, HhmmRe), S0, Lit(<<"h", "r">>), Cls({"s"}, 0, 1, TRUE), S0,
          Cap(2, DateRe)>>)],
       \* (?i)first\s+line\s+ashore\s+(?:berth\s+no\s+)?([A-Z0-9\-]+)\s+(?:at\s+)?(\d{1,2}:\d{2})(?:\s+on\s+)?(\d{1,2}[\.\/\-]\d{1,2}[\.\/\-]\d{4})
       [ngroups |-> 3, re |->
          Cat(<<Lit(<<"f", "i", "r", "s", "t">>), S1, Lit(<<"l", "i", "n",
          "e">>), S1, Lit(<<"a", "s", "h", "o", "r", "e">>), S1,
          Opt(Cat(<<Lit(<<"b", "e", "r", "t", "h">>), S1, Lit(<<"n", "o">>),
          S1>>)), Cap(1, Cls(Letter \cup Digit \cup {"-"}, 1, Unbounded,
          TRUE)), S1, Opt(Cat(<<Lit(<<"a", "t">>), S1>>)), Cap(2, ClockRe),
          Opt(Cat(<<S1, Lit(<<"o", "n">>), S1>>)), Cap(3, DateRe)>>)]
     >>],
    \* All Fast Alongside
    [type |-> "berthing", name |-> "All Fast Alongside", confidence |-> 95,
     patterns |-> <<
       \* (?i)all\s+fast\s+(?:at\s+berth\s*[-]?[A-Z0-9]+)?\s*[:=]\s*(\d{4})\s*hrs?\s*(\d{1,2}[\.\/\-]\d{1,2}[\.\/\-]\d{4})
       [ngroups |-> 2, re |->
          Cat(<<Lit(<<"a", "l", "l">>), S1, Lit(<<"f", "a", "s", "t">>), S1,
          Opt(Cat(<<Lit(<<"a", "t">>), S1, Lit(<<"b", "e", "r", "t", "h">>),
          S0, Cls({"-"}, 0, 1, TRUE), Cls(Letter \cup Digit, 1, Unbounded,
          TRUE)>>)), S0, ColonEq, S0, Cap(1, HhmmRe), S0, Lit(<<"h", "r">>),
          Cls({"s"}, 0, 1, TRUE), S0, Cap(2, DateRe)>>)],
       \* (?i)all\s+fast\s+(?:at\s+)?(\d{1,2}:\d{2})(?:\s+on\s+)?(\d{1,2}[\.\/\-]\d{1,2}[\.\/\-]\d{4})
       [ngroups |-> 2, re |->
          Cat(<<Lit(<<"a", "l", "l">>), S1, Lit(<<"f", "a", "s", "t">>), S1,
          Opt(Cat(<<Lit(<<"a", "t">>), S1>>)), Cap(1, ClockRe), Opt(Cat(<<S1,
          Lit(<<"o", "n">>), S1>>)), Cap(2, DateRe)>>)],
       \* (?i)all\s+fast
       [ngroups |-> 0, re |->
          Cat(<<Lit(<<"a", "l", "l">>), S1, Lit(<<"f", "a", "s", "t">>)>>)]
     >>],
    \* Vessel Berthed
    [type |-> "berthing", name |-> "Vessel Berthed", confidence |-> 90,
     patterns |-> <<
       \* (?i)vessel\s+berthed\s*[:=]\s*(\d{4})\s*hrs?\s*(\d{1,2}[\.\/\-]\d{1,2}[\.\/\-]\d{4})
       [ngroups |-> 2, re |->
          Cat(<<Lit(<<"v", "e", "s", "s", "e", "l">>), S1, Lit(<<"b", "e", "r",
          "t", "h", "e", "d">>), S0, ColonEq, S0, Cap(1, HhmmRe), S0,
          Lit(<<"h", "r">>), Cls({"s"}, 0, 1, TRUE), S0, Cap(2, DateRe)>>)],
       \* (?i)berthed\s+(?:at\s+)?([A-Za-z\s]+?)(?:\s+terminal)?\s+(?:at\s+)?(\d{1,2}:\d{2})(?:\s+on\s+)?(\d{1,2}[\.\/\-]\d{1,2}[\.\/\-]\d{4})
       [ngroups |-> 3, re |->
          Cat(<<Lit(<<"b", "e", "r", "t", "h", "e", "d">>), S1,
          Opt(Cat(<<Lit(<<"a", "t">>), S1>>)), Cap(1, Cls(Letter \cup Space, 1,
          Unbounded, FALSE)), Opt(Cat(<<S1, Lit(<<"t", "e", "r", "m", "i", "n",
          "a", "l">>)>>)), S1, Opt(Cat(<<Lit(<<"a", "t">>), S1>>)), Cap(2,
          ClockRe), Opt(Cat(<<S1, Lit(<<"o", "n">>), S1>>)), Cap(3, DateRe)>>)]
     >>],
    \* Loading Commenced
    [type |-> "cargo", name |-> "Loading Commenced", confidence |-> 95,
     patterns |-> <<
       \* (?i)loading\s+commenced(?:\s+on\s+)?(\d{1,2}[\.\/\-]\d{1,2}[\.\/\-]\d{4})(?:\s+at\s+)?(\d{1,2}:\d{2})
       [ngroups |-> 2, re |->
          Cat(<<Lit(<<"l", "o", "a", "d", "i", "n", "g">>), S1, Lit(<<"c", "o",
          "m", "m", "e", "n", "c", "e", "d">>), Opt(Cat(<<S1, Lit(<<"o",
          "n">>), S1>>)), Cap(1, DateRe), Opt(Cat(<<S1, Lit(<<"a", "t">>),
          S1>>)), Cap(2, ClockRe)>>)],
       \* (?i)loading\s+commenced(?:\s+at\s+)?(\d{1,2}:\d{2})(?:\s+on\s+)?(\d{1,2}[\.\/\-]\d{1,2}[\.\/\-]\d{4})
       [ngroups |-> 2, re |->
          Cat(<<Lit(<<"l", "o", "a", "d", "i", "n", "g">>), S1, Lit(<<"c", "o",
          "m", "m", "e", "n", "c", "e", "d">>), Opt(Cat(<<S1, Lit(<<"a",
          "t">>), S1>>)), Cap(1, ClockRe), Opt(Cat(<<S1, Lit(<<"o", "n">>),
          S1>>)), Cap(2, DateRe)>>)],
       \* (?i)loading\s+commenced\s*[:=]\s*(\d{4})\s*hrs?\s*(\d{1,2}[\.\/\-]\d{1,2}[\.\/\-]\d{4})
       [ngroups |-> 2, re |->
          Cat(<<Lit(<<"l", "o", "a", "d", "i", "n", "g">>), S1, Lit(<<"c", "o",
          "m", "m", "e", "n", "c", "e", "d">>), S0, ColonEq, S0, Cap(1,
          HhmmRe), S0, Lit(<<"h", "r">>), Cls({"s"}, 0, 1, TRUE), S0, Cap(2,
          DateRe)>>)],
       \* (?i)loading\s+commenced
       [ngroups |-> 0, re |->
          Cat(<<Lit(<<"l", "o", "a", "d", "i", "n", "g">>), S1, Lit(<<"c", "o",
          "m", "m", "e", "n", "c", "e", "d">>)>>)]
     >>],
    \* Loading Completed
    [type |-> "cargo", name |-> "Loading Completed", confidence |-> 95,
     patterns |-> <<
       \* (?i)loading\s+completed(?:\s+on\s+)?(\d{1,2}[\.\/\-]\d{1,2}[\.\/\-]\d{4})(?:\s+at\s+)?(\d{1,2}:\d{2})
       [ngroups |-> 2, re |->
          Cat(<<Lit(<<"l", "o", "a", "d", "i", "n", "g">>), S1, Lit(<<"c", "o",
          "m", "p", "l", "e", "t", "e", "d">>), Opt(Cat(<<S1, Lit(<<"o",
          "n">>), S1>>)), Cap(1, DateRe), Opt(Cat(<<S1, Lit(<<"a", "t">>),
          S1>>)), Cap(2, ClockRe)>>)],
       \* (?i)loading\s+completed(?:\s+at\s+)?(\d{1,2}:\d{2})(?:\s+on\s+)?(\d{1,2}[\.\/\-]\d{1,2}[\.\/\-]\d{4})
       [ngroups |-> 2, re |->
          Cat(<<Lit(<<"l", "o", "a", "d", "i", "n", "g">>), S1, Lit(<<"c", "o",
          "m", "p", "l", "e", "t", "e", "d">>), Opt(Cat(<<S1, Lit(<<"a",
          "t">>), S1>>)), Cap(1, ClockRe), Opt(Cat(<<S1, Lit(<<"o", "n">>),
          S1>>)), Cap(2, DateRe)>>)],
       \* (?i)loading\s+completed\s*[:=]\s*(\d{4})\s*hrs?\s*(\d{1,2}[\.\/\-]\d{1,2}[\.\/\-]\d{4})
       [ngroups |-> 2, re |->
          Cat(<<Lit(<<"l", "o", "a", "d", "i", "n", "g">>), S1, Lit(<<"c", "o",
          "m", "p", "l", "e", "t", "e", "d">>), S0, ColonEq, S0, Cap(1,
          HhmmRe), S0, Lit(<<"h", "r">>), Cls({"s"}, 0, 1, TRUE), S0, Cap(2,
          DateRe)>>)],
       \* (?i)loading\s+completed
       [ngroups |-> 0, re |->
          Cat(<<Lit(<<"l", "o", "a", "d", "i", "n", "g">>), S1, Lit(<<"c", "o",
          "m", "p", "l", "e", "t", "e", "d">>)>>)]
     >>],
    \* Discharging Commenced
    [type |-> "cargo", name |-> "Discharging Commenced", confidence |-> 95,
     patterns |-> <<
       \* (?i)commenced\s+discharging\s*[:=]\s*(\d{4})\s*hrs?\s*(\d{1,2}[\.\/\-]\d{1,2}[\.\/\-]\d{4})
       [ngroups |-> 2, re |->
          Cat(<<Lit(<<"c", "o", "m", "m", "e", "n", "c", "e", "d">>), S1,
          Lit(<<"d", "i", "s", "c", "h", "a", "r", "g", "i", "n", "g">>), S0,
          ColonEq, S0, Cap(1, HhmmRe), S0, Lit(<<"h", "r">>), Cls({"s"}, 0, 1,
          TRUE), S0, Cap(2, DateRe)>>)],
       \* (?i)discharging\s+commenced(?:\s+at\s+)?(\d{1,2}:\d{2})(?:\s+on\s+)?(\d{1,2}[\.\/\-]\d{1,2}[\.\/\-]\d{4})
       [ngroups |-> 2, re |->
          Cat(<<Lit(<<"d", "i", "s", "c", "h", "a", "r", "g", "i", "n", "g">>),
          S1, Lit(<<"c", "o", "m", "m", "e", "n", "c", "e", "d">>),
          Opt(Cat(<<S1, Lit(<<"a", "t">>), S1>>)), Cap(1, ClockRe),
          Opt(Cat(<<S1, Lit(<<"o", "n">>), S1>>)), Cap(2, DateRe)>>)],
       \* (?i)discharging\s+commenced
       [ngroups |-> 0, re |->
          Cat(<<Lit(<<"d", "i", "s", "c", "h", "a", "r", "g", "i", "n", "g">>),
          S1, Lit(<<"c", "o", "m", "m", "e", "n", "c", "e", "d">>)>>)]
     >>],
    \* Discharging Completed
    [type |-> "cargo", name |-> "Discharging Completed", confidence |-> 95,
     patterns |-> <<
       \* (?i)discharging\s+completed\s*[:=]\s*(\d{4})\s*hrs?\s*(\d{1,2}[\.\/\-]\d{1,2}[\.\/\-]\d{4})
       [ngroups |-> 2, re |->
          Cat(<<Lit(<<"d", "i", "s", "c", "h", "a", "r", "g", "i", "n", "g">>),
          S1, Lit(<<"c", "o", "m", "p", "l", "e", "t", "e", "d">>), S0,
          ColonEq, S0, Cap(1, HhmmRe), S0, Lit(<<"h", "r">>), Cls({"s"}, 0, 1,
          TRUE), S0, Cap(2, DateRe)>>)],
       \* (?i)discharging\s+completed(?:\s+at\s+)?(\d{1,2}:\d{2})(?:\s+on\s+)?(\d{1,2}[\.\/\-]\d{1,2}[\.\/\-]\d{4})
       [ngroups |-> 2, re |->
          Cat(<<Lit(<<"d", "i", "s", "c", "h", "a", "r", "g", "i", "n", "g">>),
          S1, Lit(<<"c", "o", "m", "p", "l", "e", "t", "e", "d">>),
          Opt(Cat(<<S1, Lit(<<"a", "t">>), S1>>)), Cap(1, ClockRe),
          Opt(Cat(<<S1, Lit(<<"o", "n">>), S1>>)), Cap(2, DateRe)>>)],
       \* (?i)discharging\s+completed
       [ngroups |-> 0, re |->
          Cat(<<Lit(<<"d", "i", "s", "c", "h", "a", "r", "g", "i", "n", "g">>),
          S1, Lit(<<"c", "o", "m", "p", "l", "e", "t", "e", "d">>)>>)]
     >>],
    \* Vessel Departed
    [type |-> "departure", name |-> "Vessel Departed", confidence |-> 95,
     patterns |-> <<
       \* (?i)(?:vessel\s+)?departed(?:\s+from\s+)?([A-Za-z\s]+?)(?:\s+on\s+)?(\d{1,2}[\.\/\-]\d{1,2}[\.\/\-]\d{4})(?:\s+at\s+)?(\d{1,2}:\d{2})
       [ngroups |-> 3, re |->
          Cat(<<Opt(Cat(<<Lit(<<"v", "e", "s", "s", "e", "l">>), S1>>)),
          Lit(<<"d", "e", "p", "a", "r", "t", "e", "d">>), Opt(Cat(<<S1,
          Lit(<<"f", "r", "o", "m">>), S1>>)), Cap(1, Cls(Letter \cup Space, 1,
          Unbounded, FALSE)), Opt(Cat(<<S1, Lit(<<"o", "n">>), S1>>)), Cap(2,
          DateRe), Opt(Cat(<<S1, Lit(<<"a", "t">>), S1>>)), Cap(3, ClockRe)>>)],
       \* (?i)(?:vessel\s+)?departed(?:\s+at\s+)?(\d{1,2}:\d{2})(?:\s+on\s+)?(\d{1,2}[\.\/\-]\d{1,2}[\.\/\-]\d{4})
       [ngroups |-> 2, re |->
          Cat(<<Opt(Cat(<<Lit(<<"v", "e", "s", "s", "e", "l">>), S1>>)),
          Lit(<<"d", "e", "p", "a", "r", "t", "e", "d">>), Opt(Cat(<<S1,
          Lit(<<"a", "t">>), S1>>)), Cap(1, ClockRe), Opt(Cat(<<S1, Lit(<<"o",
          "n">>), S1>>)), Cap(2, DateRe)>>)],
       \* (?i)(?:vessel\s+)?departed\s*[:=]\s*(\d{4})\s*hrs?\s*(\d{1,2}[\.\/\-]\d{1,2}[\.\/\-]\d{4})
       [ngroups |-> 2, re |->
          Cat(<<Opt(Cat(<<Lit(<<"v", "e", "s", "s", "e", "l">>), S1>>)),
          Lit(<<"d", "e", "p", "a", "r", "t", "e", "d">>), S0, ColonEq, S0,
          Cap(1, HhmmRe), S0, Lit(<<"h", "r">>), Cls({"s"}, 0, 1, TRUE), S0,
          Cap(2, DateRe)>>)],
       \* (?i)(?:vessel\s+)?departed
       [ngroups |-> 0, re |->
          Cat(<<Opt(Cat(<<Lit(<<"v", "e", "s", "s", "e", "l">>), S1>>)),
          Lit(<<"d", "e", "p", "a", "r", "t", "e", "d">>)>>)]
     >>],
    \* Vessel Sailed
    [type |-> "departure", name |-> "Vessel Sailed", confidence |-> 90,
     patterns |-> <<
       \* (?i)vessel\s+sailed\s*[:=]\s*(\d{4})\s*hrs?\s*(\d{1,2}[\.\/\-]\d{1,2}[\.\/\-]\d{4})
       [ngroups |-> 2, re |->
          Cat(<<Lit(<<"v", "e", "s", "s", "e", "l">>), S1, Lit(<<"s", "a", "i",
          "l", "e", "d">>), S0, ColonEq, S0, Cap(1, HhmmRe), S0, Lit(<<"h",
          "r">>), Cls({"s"}, 0, 1, TRUE), S0, Cap(2, DateRe)>>)],
       \* (?i)sailed\s+(?:at\s+)?(\d{1,2}:\d{2})(?:\s+on\s+)?(\d{1,2}[\.\/\-]\d{1,2}[\.\/\-]\d{4})
       [ngroups |-> 2, re |->
          Cat(<<Lit(<<"s", "a", "i", "l", "e", "d">>), S1, Opt(Cat(<<Lit(<<"a",
          "t">>), S1>>)), Cap(1, ClockRe), Opt(Cat(<<S1, Lit(<<"o", "n">>),
          S1>>)), Cap(2, DateRe)>>)]
     >>],
    \* Customs Boarding
    [type |-> "customs", name |-> "Customs Boarding", confidence |-> 90,
     patterns |-> <<
       \* (?i)customs\s+boarding\s+formalities\s+commenced\s*[:=]\s*(\d{4})\s*hrs?\s*(\d{1,2}[\.\/\-]\d{1,2}[\.\/\-]\d{4})
       [ngroups |-> 2, re |->
          Cat(<<Lit(<<"c", "u", "s", "t", "o", "m", "s">>), S1, Lit(<<"b", "o",
          "a", "r", "d", "i", "n", "g">>), S1, Lit(<<"f", "o", "r", "m", "a",
          "l", "i", "t", "i", "e", "s">>), S1, Lit(<<"c", "o", "m", "m", "e",
          "n", "c", "e", "d">>), S0, ColonEq, S0, Cap(1, HhmmRe), S0,
          Lit(<<"h", "r">>), Cls({"s"}, 0, 1, TRUE), S0, Cap(2, DateRe)>>)],
       \* (?i)customs\s+onboard\s+(?:at\s+)?(\d{1,2}:\d{2})(?:\s+on\s+)?(\d{1,2}[\.\/\-]\d{1,2}[\.\/\-]\d{4})
       [ngroups |-> 2, re |->
          Cat(<<Lit(<<"c", "u", "s", "t", "o", "m", "s">>), S1, Lit(<<"o", "n",
          "b", "o", "a", "r", "d">>), S1, Opt(Cat(<<Lit(<<"a", "t">>), S1>>)),
          Cap(1, ClockRe), Opt(Cat(<<S1, Lit(<<"o", "n">>), S1>>)), Cap(2,
          DateRe)>>)],
       \* (?i)customs\s+boarding
       [ngroups |-> 0, re |->
          Cat(<<Lit(<<"c", "u", "s", "t", "o", "m", "s">>), S1, Lit(<<"b", "o",
          "a", "r", "d", "i", "n", "g">>)>>)]
     >>],
    \* Weather Delay
    [type |-> "weather", name |-> "Weather Delay", confidence |-> 90,
     patterns |-> <<
       \* (?i)(?:heavy\s+)?(?:rain|storm|fog|wind)(?:\s+caused\s+delay)?
       [ngroups |-> 0, re |->
          Cat(<<Opt(Cat(<<Lit(<<"h", "e", "a", "v", "y">>), S1>>)),
          Alt(<<Lit(<<"r", "a", "i", "n">>), Lit(<<"s", "t", "o", "r", "m">>),
          Lit(<<"f", "o", "g">>), Lit(<<"w", "i", "n", "d">>)>>), Opt(Cat(<<S1,
          Lit(<<"c", "a", "u", "s", "e", "d">>), S1, Lit(<<"d", "e", "l", "a",
          "y">>)>>))>>)],
       \* (?i)weather\s+delay
       [ngroups |-> 0, re |->
          Cat(<<Lit(<<"w", "e", "a", "t", "h", "e", "r">>), S1, Lit(<<"d", "e",
          "l", "a", "y">>)>>)],
       \* (?i)operations?\s+suspended\s+due\s+to\s+weather
       [ngroups |-> 0, re |->
          Cat(<<Lit(<<"o", "p", "e", "r", "a", "t", "i", "o", "n">>),
          Cls({"s"}, 0, 1, TRUE), S1, Lit(<<"s", "u", "s", "p", "e", "n", "d",
          "e", "d">>), S1, Lit(<<"d", "u", "e">>), S1, Lit(<<"t", "o">>), S1,
          Lit(<<"w", "e", "a", "t", "h", "e", "r">>)>>)],
       \* (?i)rain\s+stopped\s+work
       [ngroups |-> 0, re |->
          Cat(<<Lit(<<"r", "a", "i", "n">>), S1, Lit(<<"s", "t", "o", "p", "p",
          "e", "d">>), S1, Lit(<<"w", "o", "r", "k">>)>>)]
     >>],
    \* NOR Tendered
    [type |-> "nor", name |-> "NOR Tendered", confidence |-> 95,
     patterns |-> <<
       \* (?i)nor\s+tendered\s*[:=]\s*(\d{4})\s*hrs?\s*(\d{1,2}[\.\/\-]\d{1,2}[\.\/\-]\d{4})
       [ngroups |-> 2, re |->
          Cat(<<Lit(<<"n", "o", "r">>), S1, Lit(<<"t", "e", "n", "d", "e", "r",
          "e", "d">>), S0, ColonEq, S0, Cap(1, HhmmRe), S0, Lit(<<"h", "r">>),
          Cls({"s"}, 0, 1, TRUE), S0, Cap(2, DateRe)>>)],
       \* (?i)notice\s+of\s+readiness\s+tendered\s*[:=]\s*(\d{4})\s*hrs?\s*(\d{1,2}[\.\/\-]\d{1,2}[\.\/\-]\d{4})
       [ngroups |-> 2, re |->
          Cat(<<Lit(<<"n", "o", "t", "i", "c", "e">>), S1, Lit(<<"o", "f">>),
          S1, Lit(<<"r", "e", "a", "d", "i", "n", "e", "s", "s">>), S1,
          Lit(<<"t", "e", "n", "d", "e", "r", "e", "d">>), S0, ColonEq, S0,
          Cap(1, HhmmRe), S0, Lit(<<"h", "r">>), Cls({"s"}, 0, 1, TRUE), S0,
          Cap(2, DateRe)>>)]
     >>],
    \* NOR Accepted
    [type |-> "nor", name |-> "NOR Accepted", confidence |-> 95,
     patterns |-> <<
       \* (?i)nor\s+accepted\s*[:=]\s*(\d{4})\s*hrs?\s*(\d{1,2}[\.\/\-]\d{1,2}[\.\/\-]\d{4})
       [ngroups |-> 2, re |->
          Cat(<<Lit(<<"n", "o", "r">>), S1, Lit(<<"a", "c", "c", "e", "p", "t",
          "e", "d">>), S0, ColonEq, S0, Cap(1, HhmmRe), S0, Lit(<<"h", "r">>),
          Cls({"s"}, 0, 1, TRUE), S0, Cap(2, DateRe)>>)],
       \* (?i)notice\s+of\s+readiness\s+accepted\s*[:=]\s*(\d{4})\s*hrs?\s*(\d{1,2}[\.\/\-]\d{1,2}[\.\/\-]\d{4})
       [ngroups |-> 2, re |->
          Cat(<<Lit(<<"n", "o", "t", "i", "c", "e">>), S1, Lit(<<"o", "f">>),
          S1, Lit(<<"r", "e", "a", "d", "i", "n", "e", "s", "s">>), S1,
          Lit(<<"a", "c", "c", "e", "p", "t", "e", "d">>), S0, ColonEq, S0,
          Cap(1, HhmmRe), S0, Lit(<<"h", "r">>), Cls({"s"}, 0, 1, TRUE), S0,
          Cap(2, DateRe)>>)]
     >>],
    \* Free Pratique Granted
    [type |-> "pratique", name |-> "Free Pratique Granted", confidence |-> 95,
     patterns |-> <<
       \* (?i)free\s+pratique\s+granted\s*[:=]\s*(\d{4})\s*hrs?\s*(\d{1,2}[\.\/\-]\d{1,2}[\.\/\-]\d{4})
       [ngroups |-> 2, re |->
          Cat(<<Lit(<<"f", "r", "e", "e">>), S1, Lit(<<"p", "r", "a", "t", "i",
          "q", "u", "e">>), S1, Lit(<<"g", "r", "a", "n", "t", "e", "d">>), S0,
          ColonEq, S0, Cap(1, HhmmRe), S0, Lit(<<"h", "r">>), Cls({"s"}, 0, 1,
          TRUE), S0, Cap(2, DateRe)>>)],
       \* (?i)pratique\s+granted\s*[:=]\s*(\d{4})\s*hrs?\s*(\d{1,2}[\.\/\-]\d{1,2}[\.\/\-]\d{4})
       [ngroups |-> 2, re |->
          Cat(<<Lit(<<"p", "r", "a", "t", "i", "q", "u", "e">>), S1, Lit(<<"g",
          "r", "a", "n", "t", "e", "d">>), S0, ColonEq, S0, Cap(1, HhmmRe), S0,
          Lit(<<"h", "r">>), Cls({"s"}, 0, 1, TRUE), S0, Cap(2, DateRe)>>)]
     >>]
  >>
\* vessel_patterns of _extract_vessel_name
vessel_patterns ==
  <<
    \* (?i)vessel\s*[:=]\s*([A-Za-z\s\.\-]+?)(?:\n|$|IMO|FLAG)
    [ngroups |-> 1, re |->
       Cat(<<Lit(<<"v", "e", "s", "s", "e", "l">>), S0, ColonEq, S0, Cap(1,
       Cls(Letter \cup Space \cup {".", "-"}, 1, Unbounded, FALSE)),
       Alt(<<Lit(<<"\n">>), AtEnd, Lit(<<"i", "m", "o">>), Lit(<<"f", "l", "a",
       "g">>)>>)>>)],
    \* (?i)name\s+of\s+the\s+vessel\s*[:=]\s*([A-Za-z\s\.\-]+?)(?:\n|$|IMO|FLAG)
    [ngroups |-> 1, re |->
       Cat(<<Lit(<<"n", "a", "m", "e">>), S1, Lit(<<"o", "f">>), S1, Lit(<<"t",
       "h", "e">>), S1, Lit(<<"v", "e", "s", "s", "e", "l">>), S0, ColonEq, S0,
       Cap(1, Cls(Letter \cup Space \cup {".", "-"}, 1, Unbounded, FALSE)),
       Alt(<<Lit(<<"\n">>), AtEnd, Lit(<<"i", "m", "o">>), Lit(<<"f", "l", "a",
       "g">>)>>)>>)],
    \* (?i)mv\.?\s+([A-Za-z\s\.\-]+?)(?:\n|$|IMO|FLAG)
    [ngroups |-> 1, re |->
       Cat(<<Lit(<<"m", "v">>), Cls({"."}, 0, 1, TRUE), S1, Cap(1,
       Cls(Letter \cup Space \cup {".", "-"}, 1, Unbounded, FALSE)),
       Alt(<<Lit(<<"\n">>), AtEnd, Lit(<<"i", "m", "o">>), Lit(<<"f", "l", "a",
       "g">>)>>)>>)]
  >>

\* port_patterns of _extract_port_name
port_patterns ==
  <<
    \* (?i)port\s*[:=]\s*([A-Za-z\s\.\-]+?)(?:\n|$|TERMINAL|BERTH)
    [ngroups |-> 1, re |->
       Cat(<<Lit(<<"p", "o", "r", "t">>), S0, ColonEq, S0, Cap(1,
       Cls(Letter \cup Space \cup {".", "-"}, 1, Unbounded, FALSE)),
       Alt(<<Lit(<<"\n">>), AtEnd, Lit(<<"t", "e", "r", "m", "i", "n", "a",
       "l">>), Lit(<<"b", "e", "r", "t", "h">>)>>)>>)],
    \* (?i)port\s+of\s+(?:loading|discharge)\s*[:=]\s*([A-Za-z\s\.\-]+?)(?:\n|$|TERMINAL|BERTH)
    [ngroups |-> 1, re |->
       Cat(<<Lit(<<"p", "o", "r", "t">>), S1, Lit(<<"o", "f">>), S1,
       Alt(<<Lit(<<"l", "o", "a", "d", "i", "n", "g">>), Lit(<<"d", "i", "s",
       "c", "h", "a", "r", "g", "e">>)>>), S0, ColonEq, S0, Cap(1,
       Cls(Letter \cup Space \cup {".", "-"}, 1, Unbounded, FALSE)),
       Alt(<<Lit(<<"\n">>), AtEnd, Lit(<<"t", "e", "r", "m", "i", "n", "a",
       "l">>), Lit(<<"b", "e", "r", "t", "h">>)>>)>>)]
  >>

\* the if/elif chain of _identify_event_type_from_context, in its order
context_keywords ==
  <<
    [type |-> "arrival", keywords |-> <<
       <<"a", "r", "r", "i", "v", "e", "d">>,
       <<"a", "r", "r", "i", "v", "a", "l">>,
       <<"r", "e", "a", "c", "h", "e", "d">>>>],
    [type |-> "departure", keywords |-> <<
       <<"d", "e", "p", "a", "r", "t", "e", "d">>,
       <<"s", "a", "i", "l", "e", "d">>,
       <<"l", "e", "f", "t">>>>],
    [type |-> "berthing", keywords |-> <<
       <<"b", "e", "r", "t", "h", "e", "d">>,
       <<"m", "o", "o", "r", "e", "d">>,
       <<"a", "l", "o", "n", "g", "s", "i", "d", "e">>>>],
    [type |-> "cargo", keywords |-> <<
       <<"l", "o", "a", "d", "i", "n", "g">>,
       <<"l", "o", "a", "d", "e", "d">>>>],
    [type |-> "cargo", keywords |-> <<
       <<"d", "i", "s", "c", "h", "a", "r", "g", "i", "n", "g">>,
       <<"d", "i", "s", "c", "h", "a", "r", "g", "e", "d">>,
       <<"u", "n", "l", "o", "a", "d", "i", "n", "g">>>>],
    [type |-> "pilot", keywords |-> <<
       <<"p", "i", "l", "o", "t">>,
       <<"b", "o", "a", "r", "d", "e", "d">>,
       <<"e", "m", "b", "a", "r", "k", "e", "d">>>>],
    [type |-> "customs", keywords |-> <<
       <<"c", "u", "s", "t", "o", "m", "s">>,
       <<"b", "o", "a", "r", "d", "i", "n", "g">>>>],
    [type |-> "weather", keywords |-> <<
       <<"w", "e", "a", "t", "h", "e", "r">>,
       <<"r", "a", "i", "n">>,
       <<"s", "t", "o", "r", "m">>,
       <<"d", "e", "l", "a", "y">>>>]
  >>

\* self.maritime_keywords['operation_indicators']
operation_indicators ==
  << <<"c", "o", "m", "m", "e", "n", "c", "e", "d">>,
     <<"c", "o", "m", "p", "l", "e", "t", "e", "d">>,
     <<"s", "t", "a", "r", "t", "e", "d">>,
     <<"f", "i", "n", "i", "s", "h", "e", "d">>,
     <<"s", "u", "s", "p", "e", "n", "d", "e", "d">>,
     <<"r", "e", "s", "u", "m", "e", "d">>,
     <<"s", "t", "o", "p", "p", "e", "d">>,
     <<"d", "e", "l", "a", "y", "e", "d">>,
     <<"i", "n", "t", "e", "r", "r", "u", "p", "t", "e", "d">> >>

-----------------------------------------------------------------------------
(* The matcher: _extract_structured_event and what it calls *)

\* re.match(r'^\d{1,2}:\d{2}$', group) or re.match(r'^\d{4}$', group)
IsTimeGroup(g) ==
  \/ Matches(Cat(<<ClockRe, AtEnd>>), g)
  \/ Matches(Cat(<<HhmmRe, AtEnd>>), g)

\* re.match(r'^\d{1,2}[\.\/\-]\d{1,2}[\.\/\-]\d{4}$', group)
IsDateGroup(g) == Matches(Cat(<<DateRe, AtEnd>>), g)

\* re.match(r'^[A-Za-z\s]+$', group) and len(group.strip()) > 2
IsLocationGroup(g) ==
  /\ Matches(Cat(<<Cls(Letter \cup Upper \cup Space, 1, Unbounded, TRUE), AtEnd>>), g)
  /\ Len(Strip(g)) > 2

\* The loop over the groups of one match: each group that is a time, a date
\* or a location is ASSIGNED to its variable, in the order of the groups.
\* acc is [time_info, date_info, location_info] so far.
RECURSIVE ClassifyGroups(_, _, _)
ClassifyGroups(gs, i, acc) ==
  IF i > Len(gs) THEN acc
  ELSE LET g == gs[i]
       IN ClassifyGroups(gs, i + 1,
            IF ~Truthy(g) THEN acc
            ELSE IF IsTimeGroup(g) THEN [acc EXCEPT !.time_info = g]
            ELSE IF IsDateGroup(g) THEN [acc EXCEPT !.date_info = g]
            ELSE IF IsLocationGroup(g) THEN [acc EXCEPT !.location_info = Strip(g)]
            ELSE acc)

\* re.sub(r'[\.\/\-]', '/', date_str)
SubSeparators(d) == [i \in 1..Len(d) |-> IF d[i] \in {".", "/", "-"} THEN "/" ELSE d[i]]

\* sep.join(parts[lo..hi])
RECURSIVE JoinRange(_, _, _, _)
JoinRange(sep, parts, lo, hi) ==
  IF lo > hi THEN <<>>
  ELSE IF lo = hi THEN parts[lo]
  ELSE LET mid == (lo + hi) \div 2
       IN JoinRange(sep, parts, lo, mid) \o sep \o JoinRange(sep, parts, mid + 1, hi)

\* ' '.join(parts)
JoinSpace(parts) == JoinRange(<<" ">>, parts, 1, Len(parts))

\* a formatter that leaves a time of four digits as it is
_format_time_date_as_given(time_str, date_str) ==
  LET formatted_parts ==
        (IF Truthy(time_str) THEN <<time_str>> ELSE <<>>)
        \o (IF Truthy(date_str) THEN <<SubSeparators(date_str)>> ELSE <<>>)
  IN IF formatted_parts # <<>> THEN JoinSpace(formatted_parts) ELSE None

\* time_str and date_str are strings or None; with these nothing in the try
\* block raises, and the except clause is not entered
_format_time_date(time_str, date_str) ==
  LET time_formatted ==
        IF Len(time_str) = 4 /\ \A i \in 1..4 : time_str[i] # ":"
        THEN SubSeq(time_str, 1, 2) \o <<":">> \o SubSeq(time_str, 3, 4)
        ELSE time_str
      formatted_parts ==
        (IF Truthy(time_str) THEN <<time_formatted>> ELSE <<>>)
        \o (IF Truthy(date_str) THEN <<SubSeparators(date_str)>> ELSE <<>>)
  IN IF formatted_parts # <<>> THEN JoinSpace(formatted_parts) ELSE None

\* str.split(): the maximal runs of non-whitespace characters, in text order
Split(s) ==
  LET starts == {i \in 1..Len(s) : s[i] \notin Space /\ (i = 1 \/ s[i - 1] \in Space)}
      ends == {i \in 1..Len(s) : s[i] \notin Space /\ (i = Len(s) \/ s[i + 1] \in Space)}
      first == Ascending(starts, 1, Len(s))
      last == Ascending(ends, 1, Len(s))
  IN SubSeq([k \in 1..Len(first) |-> SubSeq(s, first[k], last[k])], 1, Len(first))

Max(a, b) == IF a > b THEN a ELSE b
Min(a, b) == IF a < b THEN a ELSE b

\* char_window
char_window == 1000
\* the words kept before and after the match
context_words == 150

\* m.start and m.end are 1-based (end exclusive): match.start() is
\* m.start - 1 and match.end() is m.end - 1
_get_context_around_match(m, t) ==
  LET match_start == m.start - 1
      match_end == m.end - 1
      context_start == Max(0, match_start - char_window)
      context_end == Min(Len(t), match_end + char_window)
      context_text == Strip(Slice(t, context_start, context_end))
      words == Split(context_text)
      match_word_start == Len(Split(Slice(t, 0, match_start)))
      match_word_end == Len(Split(Slice(t, 0, match_end)))
      before_window == Len(Split(Slice(t, 0, context_start)))
      relative_match_start == match_word_start - before_window
      relative_match_end == match_word_end - before_window
      words_before == Max(0, relative_match_start - context_words)
      words_after == Min(Len(words), relative_match_end + context_words)
      context == JoinSpace(SubSeq(words, words_before + 1, words_after))
  IN (IF words_before > 0 THEN <<".", ".", ".", " ">> ELSE <<>>)
     \o context
     \o (IF words_after < Len(words) THEN <<" ", ".", ".", ".">> ELSE <<>>)

\* any(groups)
AnyGroup(gs) == \E i \in 1..Len(gs) : Truthy(gs[i])

\* the confidence without the clamp to [0.0, 1.0]
_calculate_confidence_unclamped(pattern_info, full_match, gs) ==
  LET base == pattern_info.confidence
      a == IF AnyGroup(gs) THEN 5 ELSE 0
      b == IF Len(gs) >= 2 /\ AnyGroup(Tail(gs)) THEN 5 ELSE 0
      c == IF Len(Strip(full_match)) < 10 THEN 10 ELSE 0
  IN base + a + b - c

\* the confidence with the length of the match taken before trimming
_calculate_confidence_untrimmed(pattern_info, full_match, gs) ==
  LET base == pattern_info.confidence
      a == IF AnyGroup(gs) THEN 5 ELSE 0
      b == IF Len(gs) >= 2 /\ AnyGroup(Tail(gs)) THEN 5 ELSE 0
      c == IF Len(full_match) < 10 THEN 10 ELSE 0
  IN Min(100, Max(0, base + a + b - c))

\* the confidence with one boost for the groups, not two
_calculate_confidence_one_boost(pattern_info, full_match, gs) ==
  LET base == pattern_info.confidence
      a == IF AnyGroup(gs) THEN 5 ELSE 0
      c == IF Len(Strip(full_match)) < 10 THEN 10 ELSE 0
  IN Min(100, Max(0, base + a - c))

\* in hundredths
_calculate_confidence(pattern_info, full_match, gs) ==
  LET base == pattern_info.confidence
      a == IF AnyGroup(gs) THEN 5 ELSE 0
      b == IF Len(gs) >= 2 /\ AnyGroup(Tail(gs)) THEN 5 ELSE 0
      c == IF Len(Strip(full_match)) < 10 THEN 10 ELSE 0
  IN Min(100, Max(0, base + a + b - c))

_extract_structured_event(m, pattern_info, t) ==
  LET full_match == group0(m, t)
      gs == groups(m, t)
      none == [time_info |-> None, date_info |-> None, location_info |-> None]
      info == IF Len(gs) >= 2 THEN ClassifyGroups(gs, 1, none) ELSE none
      formatted_time ==
        IF Truthy(info.time_info) \/ Truthy(info.date_info)
        THEN _format_time_date(info.time_info, info.date_info)
        ELSE None
  IN [event_type |-> pattern_info.type,
      event |-> pattern_info.name,
      confidence |-> _calculate_confidence(pattern_info, full_match, gs),
      start_time |-> formatted_time,
      location |-> info.location_info,
      remarks |-> _get_context_around_match(m, t),
      raw_match |-> full_match,
      timestamp |-> formatted_time,
      time_raw |-> info.time_info,
      date_raw |-> info.date_info,
      extraction_method |-> "pattern_matching"]

\* the events of the first pattern of the entry that matches at all
RECURSIVE FirstPatternOnly(_, _, _)
FirstPatternOnly(t, pattern_info, j) ==
  IF j > Len(pattern_info.patterns) THEN <<>>
  ELSE LET ms == finditer(pattern_info.patterns[j], t)
       IN IF ms # <<>>
          THEN [i \in 1..Len(ms) |-> _extract_structured_event(ms[i], pattern_info, t)]
          ELSE FirstPatternOnly(t, pattern_info, j + 1)

_extract_with_patterns_first_pattern(t, pattern_info) == FirstPatternOnly(t, pattern_info, 1)

\* the events of one catalog entry: its patterns in order, each pattern's
\* matches in text order
_extract_with_patterns(t, pattern_info) ==
  Flatten([j \in 1..Len(pattern_info.patterns) |->
            LET ms == finditer(pattern_info.patterns[j], t)
            IN [i \in 1..Len(ms) |-> _extract_structured_event(ms[i], pattern_info, t)]])


-----------------------------------------------------------------------------
(* The linguistic fallback *)

\* doc.sents of self.nlp(text), as the texts of the sentences.  The engine is
\* spaCy's; this code only iterates over what it returns.  Two engines are
\* modelled: "lines" ends a sentence at every line break, "whole" takes the
\* document as one sentence.
Lines(s) ==
  LET breaks == Ascending({i \in 1..Len(s) : s[i] = "\n"}, 1, Len(s))
      first == <<1>> \o [k \in 1..Len(breaks) |-> breaks[k] + 1]
      last == [k \in 1..Len(breaks) |-> breaks[k] - 1] \o <<Len(s)>>
  IN SubSeq([k \in 1..Len(first) |-> SubSeq(s, first[k], last[k])], 1, Len(first))

sents(engine, t) ==
  LET raw == IF engine = "lines" THEN Lines(t) ELSE <<t>>
      stripped == [i \in 1..Len(raw) |-> Strip(raw[i])]
  IN SelectSeq(stripped, LAMBDA s : s # <<>>)

\* the first branch of the chain with a keyword in the text; "" is the None
\* the code returns when no branch has one (both are false in `if event_type`)
RECURSIVE FirstContextType(_, _)
FirstContextType(text_lower, i) ==
  IF i > Len(context_keywords) THEN ""
  ELSE IF ContainsAny(text_lower, context_keywords[i].keywords)
       THEN context_keywords[i].type
       ELSE FirstContextType(text_lower, i + 1)

\* the last branch of the chain with a keyword in the text
RECURSIVE LastContextType(_, _)
LastContextType(text_lower, i) ==
  IF i = 0 THEN ""
  ELSE IF ContainsAny(text_lower, context_keywords[i].keywords)
       THEN context_keywords[i].type
       ELSE LastContextType(text_lower, i - 1)

\* a chain read from its end
_identify_event_type_from_context_last(t) == LastContextType(Lower(t), Len(context_keywords))

_identify_event_type_from_context(t) == FirstContextType(Lower(t), 1)

\* f"NLP Detected {event_type.title()}"
NlpEventName(event_type) ==
  CASE event_type = "arrival" -> "NLP Detected Arrival"
    [] event_type = "departure" -> "NLP Detected Departure"
    [] event_type = "berthing" -> "NLP Detected Berthing"
    [] event_type = "cargo" -> "NLP Detected Cargo"
    [] event_type = "pilot" -> "NLP Detected Pilot"
    [] event_type = "customs" -> "NLP Detected Customs"
    [] event_type = "weather" -> "NLP Detected Weather"

\* What doc = self.nlp(text) raises: "none" when it returns.  The engine
\* "raises" stands for a pipeline that fails on the text.
NlpCall(engine, t) == IF engine = "raises" THEN "Exception" ELSE "none"

\* _extract_with_nlp without its try block
_extract_with_nlp_raises_untried(engine, t) == NlpCall(engine, t) # "none"

\* whether _extract_with_nlp lets an exception out: its body is one try
\* block with `except Exception`
_extract_with_nlp_raises(engine, t) ==
  LET raised == NlpCall(engine, t)
  IN raised # "none" /\ raised \notin {"Exception"}

\* engine "raises": self.nlp(text) throws, the except clause logs it and the
\* (still empty) list is returned
ScanSentences(engine, t) ==
  IF engine = "raises" THEN <<>>
  ELSE
    LET ss == sents(engine, t)
        OfSentence(sent) ==
          LET sent_text == Lower(sent)
              event_type == _identify_event_type_from_context(sent_text)
          IN IF ContainsAny(sent_text, operation_indicators) /\ event_type # ""
             THEN <<[event_type |-> event_type,
                     event |-> NlpEventName(event_type),
                     confidence |-> 70,
                     start_time |-> None,
                     location |-> None,
                     remarks |-> sent,
                     extraction_method |-> "nlp_context"]>>
             ELSE <<>>
    IN Flatten([i \in 1..Len(ss) |-> OfSentence(ss[i])])

-----------------------------------------------------------------------------
(* Deduplication, sorting, enrichment *)

\* key = (event['event_type'], event['start_time'], event['location'])
KeyOf(e) == <<e.event_type, e.start_time, e.location>>

RECURSIVE DedupFrom(_, _, _)
DedupFrom(es, i, seen) ==
  IF i > Len(es) THEN <<>>
  ELSE IF KeyOf(es[i]) \notin seen
       THEN <<es[i]>> \o DedupFrom(es, i + 1, seen \cup {KeyOf(es[i])})
       ELSE DedupFrom(es, i + 1, seen)

\* a deduplication that compares an event with the one before it only
_remove_duplicates_adjacent(es) ==
  LET keep == {i \in 1..Len(es) : i = 1 \/ KeyOf(es[i]) # KeyOf(es[i - 1])}
      at == Ascending(keep, 1, Len(es))
  IN Tuple([k \in 1..Len(at) |-> es[at[k]]])

\* a deduplication whose key has the name of the event in it
_remove_duplicates_by_name(es) ==
  LET Named(e) == <<e.event_type, e.event, e.start_time, e.location>>
      keep == {i \in 1..Len(es) : \A j \in 1..(i - 1) : Named(es[j]) # Named(es[i])}
      at == Ascending(keep, 1, Len(es))
  IN Tuple([k \in 1..Len(at) |-> es[at[k]]])

\* a deduplication whose key is the event_type alone
_remove_duplicates_by_type(es) ==
  LET keep == {i \in 1..Len(es) : \A j \in 1..(i - 1) : es[j].event_type # es[i].event_type}
      at == Ascending(keep, 1, Len(es))
  IN Tuple([k \in 1..Len(at) |-> es[at[k]]])

\* a deduplication that drops the first repeated event only
_remove_duplicates_first_repeat(es) ==
  LET repeats == {i \in 1..Len(es) : \E j \in 1..(i - 1) : KeyOf(es[j]) = KeyOf(es[i])}
      d == CHOOSE i \in repeats : \A k \in repeats : i <= k
  IN IF repeats = {} THEN es
     ELSE SubSeq(es, 1, d - 1) \o SubSeq(es, d + 1, Len(es))

\* a deduplication whose key is the event_type and the name of the event
_remove_duplicates_by_event(es) ==
  LET keep == {i \in 1..Len(es) :
                 \A j \in 1..(i - 1) :
                   <<es[j].event_type, es[j].event>> # <<es[i].event_type, es[i].event>>}
      at == Ascending(keep, 1, Len(es))
  IN Tuple([k \in 1..Len(at) |-> es[at[k]]])

\* a deduplication that keeps every event of the fallback
_remove_duplicates_patterns_only(es) ==
  LET keep == {i \in 1..Len(es) :
                 \/ es[i].extraction_method = "nlp_context"
                 \/ \A j \in 1..(i - 1) : KeyOf(es[j]) # KeyOf(es[i])}
      at == Ascending(keep, 1, Len(es))
  IN Tuple([k \in 1..Len(at) |-> es[at[k]]])

\* a deduplication that keeps the last event of a key
_remove_duplicates_last(es) ==
  LET keep == {i \in 1..Len(es) : \A j \in (i + 1)..Len(es) : KeyOf(es[j]) # KeyOf(es[i])}
      at == Ascending(keep, 1, Len(es))
  IN Tuple([k \in 1..Len(at) |-> es[at[k]]])

_remove_duplicates(es) == DedupFrom(es, 1, {})

\* the characters of the documents in the order of their code points
CodeOrder ==
  <<"\t", "\n", "\r",
    " ", "!", "\"", "#", "$", "%", "&", "'", "(", ")", "*", "+", ",", "-", ".", "/",
    "0", "1", "2", "3", "4", "5", "6", "7", "8", "9", ":", ";", "<", "=", ">", "?",
    "@", "A", "B", "C", "D", "E", "F", "G", "H", "I", "J", "K", "L", "M", "N", "O",
    "P", "Q", "R", "S", "T", "U", "V", "W", "X", "Y", "Z", "[", "\\", "]", "^", "_",
    "a", "b", "c", "d", "e", "f", "g", "h", "i", "j", "k", "l", "m", "n", "o",
    "p", "q", "r", "s", "t", "u", "v", "w", "x", "y", "z", "{", "|", "}", "~">>

Code(c) == CHOOSE i \in 1..Len(CodeOrder) : CodeOrder[i] = c

\* a < b for str: at the first position where they differ the code point of a
\* is the smaller, or a is a proper prefix of b
StrLess(a, b) ==
  \/ Len(a) < Len(b) /\ SubSeq(b, 1, Len(a)) = a
  \/ \E i \in 1..Min(Len(a), Len(b)) :
        /\ SubSeq(a, 1, i - 1) = SubSeq(b, 1, i - 1)
        /\ Code(a[i]) < Code(b[i])

\* event.get(field): None for a key the dict lacks
Get(e, field) == IF field \in DOMAIN e THEN e[field] ELSE None

\* list.sort(key=lambda x: x['timestamp'] or '') is stable: an element goes
\* behind every element whose key is not greater than its own
RECURSIVE InsertByTime(_, _)
InsertByTime(sorted, e) ==
  IF sorted = <<>> THEN <<e>>
  ELSE IF StrLess(e.timestamp, Head(sorted).timestamp)
       THEN <<e>> \o sorted
       ELSE <<Head(sorted)>> \o InsertByTime(Tail(sorted), e)

RECURSIVE SortByTime(_, _)
SortByTime(es, i) ==
  IF i = 0 THEN <<>> ELSE InsertByTime(SortByTime(es, i - 1), es[i])

\* "HH:MM DD/MM/YYYY" as year, month, day, time
CalendarKey(s) ==
  IF Len(s) = 16
  THEN SubSeq(s, 13, 16) \o SubSeq(s, 10, 11) \o SubSeq(s, 7, 8) \o SubSeq(s, 1, 5)
  ELSE s

RECURSIVE InsertByCalendar(_, _)
InsertByCalendar(sorted, e) ==
  IF sorted = <<>> THEN <<e>>
  ELSE IF StrLess(CalendarKey(e.timestamp), CalendarKey(Head(sorted).timestamp))
       THEN <<e>> \o sorted
       ELSE <<Head(sorted)>> \o InsertByCalendar(Tail(sorted), e)

RECURSIVE SortByCalendar(_, _)
SortByCalendar(es, i) ==
  IF i = 0 THEN <<>> ELSE InsertByCalendar(SortByCalendar(es, i - 1), es[i])

\* a sort by the calendar: the year first, then the month, the day, the time
_sort_events_by_time_by_calendar(es) ==
  LET events_with_time == SelectSeq(es, LAMBDA e : Truthy(Get(e, "timestamp")))
      events_without_time == SelectSeq(es, LAMBDA e : ~Truthy(Get(e, "timestamp")))
  IN SortByCalendar(events_with_time, Len(events_with_time)) \o events_without_time

\* an element goes in front of the first element whose key is not less than
\* its own: elements of equal keys come out in reverse
RECURSIVE InsertBeforeEqual(_, _)
InsertBeforeEqual(sorted, e) ==
  IF sorted = <<>> THEN <<e>>
  ELSE IF StrLess(Head(sorted).timestamp, e.timestamp)
       THEN <<Head(sorted)>> \o InsertBeforeEqual(Tail(sorted), e)
       ELSE <<e>> \o sorted

RECURSIVE SortBeforeEqual(_, _)
SortBeforeEqual(es, i) ==
  IF i = 0 THEN <<>> ELSE InsertBeforeEqual(SortBeforeEqual(es, i - 1), es[i])

\* a sort that is not stable
_sort_events_by_time_unstable(es) ==
  LET events_with_time == SelectSeq(es, LAMBDA e : Truthy(Get(e, "timestamp")))
      events_without_time == SelectSeq(es, LAMBDA e : ~Truthy(Get(e, "timestamp")))
  IN SortBeforeEqual(events_with_time, Len(events_with_time)) \o events_without_time

\* a sort that leaves the candidates in the order it finds them in
_sort_events_by_time_as_found(es) == es

_sort_events_by_time(es) ==
  LET events_with_time == SelectSeq(es, LAMBDA e : Truthy(Get(e, "timestamp")))
      events_without_time == SelectSeq(es, LAMBDA e : ~Truthy(Get(e, "timestamp")))
  IN SortByTime(events_with_time, Len(events_with_time)) \o events_without_time

-----------------------------------------------------------------------------
(* The documents *)

\* lines of statements of facts
\* 'All fast'
AllFast ==
  <<"A", "l", "l", " ", "f", "a", "s", "t">>

\* 'Loading commenced: 1000 HRS 31.08.2025'
LoadingCommenced ==
  <<"L", "o", "a", "d", "i", "n", "g", " ", "c", "o", "m", "m", "e", "n",
    "c", "e", "d", ":", " ", "1", "0", "0", "0", " ", "H", "R", "S", " ",
    "3", "1", ".", "0", "8", ".", "2", "0", "2", "5">>

\* 'Loading completed: 1800 HRS 31.08.2025'
LoadingCompleted ==
  <<"L", "o", "a", "d", "i", "n", "g", " ", "c", "o", "m", "p", "l", "e",
    "t", "e", "d", ":", " ", "1", "8", "0", "0", " ", "H", "R", "S", " ",
    "3", "1", ".", "0", "8", ".", "2", "0", "2", "5">>

\* 'Pilot boarded for berthing at 08:15 on 31/08/2025'
PilotBoarded ==
  <<"P", "i", "l", "o", "t", " ", "b", "o", "a", "r", "d", "e", "d", " ",
    "f", "o", "r", " ", "b", "e", "r", "t", "h", "i", "n", "g", " ", "a",
    "t", " ", "0", "8", ":", "1", "5", " ", "o", "n", " ", "3", "1", "/",
    "0", "8", "/", "2", "0", "2", "5">>

\* 'VESSEL DROPPED ANCHOR 1712 HRS 16.02.2024'
DroppedAnchor ==
  <<"V", "E", "S", "S", "E", "L", " ", "D", "R", "O", "P", "P", "E", "D",
    " ", "A", "N", "C", "H", "O", "R", " ", "1", "7", "1", "2", " ", "H",
    "R", "S", " ", "1", "6", ".", "0", "2", ".", "2", "0", "2", "4">>

\* 'Vessel arrived at Singapore: 2000 HRS 31.08.2025'
VesselArrived ==
  <<"V", "e", "s", "s", "e", "l", " ", "a", "r", "r", "i", "v", "e", "d",
    " ", "a", "t", " ", "S", "i", "n", "g", "a", "p", "o", "r", "e", ":",
    " ", "2", "0", "0", "0", " ", "H", "R", "S", " ", "3", "1", ".", "0",
    "8", ".", "2", "0", "2", "5">>

\* 'Pilot boarded at 8:15 on 1/8/2025'
PilotEarly ==
  <<"P", "i", "l", "o", "t", " ", "b", "o", "a", "r", "d", "e", "d", " ",
    "a", "t", " ", "8", ":", "1", "5", " ", "o", "n", " ", "1", "/", "8",
    "/", "2", "0", "2", "5">>

\* 'Customs delayed'
CustomsDelayed ==
  <<"C", "u", "s", "t", "o", "m", "s", " ", "d", "e", "l", "a", "y", "e",
    "d">>

\* 'VESSEL: MV TEST'
VesselName ==
  <<"V", "E", "S", "S", "E", "L", ":", " ", "M", "V", " ", "T", "E", "S",
    "T">>

\* texts at the length limit of extract_events
\* ''
Empty ==
  <<>>

\* '   '
Blank ==
  <<" ", " ", " ">>

\* ' \n\t\n '
BlankLines ==
  <<" ", "\n", "\t", "\n", " ">>

\* '  All fast  \n'
Padded ==
  <<" ", " ", "A", "l", "l", " ", "f", "a", "s", "t", " ", " ", "\n">>

\* 'All fast!'
NineChars ==
  <<"A", "l", "l", " ", "f", "a", "s", "t", "!">>

\* 'All fast!!'
TenChars ==
  <<"A", "l", "l", " ", "f", "a", "s", "t", "!", "!">>

\* what DocumentProcessor._try_ocr_extraction returns when OCR is not to be had
\* 'OCR_UNAVAILABLE: Tesseract OCR engine is not installed. Please instal...
OcrUnavailable ==
  <<"O", "C", "R", "_", "U", "N", "A", "V", "A", "I", "L", "A", "B", "L",
    "E", ":", " ", "T", "e", "s", "s", "e", "r", "a", "c", "t", " ", "O",
    "C", "R", " ", "e", "n", "g", "i", "n", "e", " ", "i", "s", " ", "n",
    "o", "t", " ", "i", "n", "s", "t", "a", "l", "l", "e", "d", ".", " ",
    "P", "l", "e", "a", "s", "e", " ", "i", "n", "s", "t", "a", "l", "l",
    " ", "T", "e", "s", "s", "e", "r", "a", "c", "t", " ", "f", "o", "r",
    " ", "W", "i", "n", "d", "o", "w", "s", " ", "t", "o", " ", "e", "n",
    "a", "b", "l", "e", " ", "O", "C", "R", " ", "p", "r", "o", "c", "e",
    "s", "s", "i", "n", "g", " ", "o", "f", " ", "i", "m", "a", "g", "e",
    "-", "b", "a", "s", "e", "d", " ", "P", "D", "F", "s", ".", " ", "D",
    "o", "w", "n", "l", "o", "a", "d", " ", "f", "r", "o", "m", ":", " ",
    "h", "t", "t", "p", "s", ":", "/", "/", "g", "i", "t", "h", "u", "b",
    ".", "c", "o", "m", "/", "U", "B", "-", "M", "a", "n", "n", "h", "e",
    "i", "m", "/", "t", "e", "s", "s", "e", "r", "a", "c", "t", "/", "w",
    "i", "k", "i">>

\* 'OCR_FAILED: Text extraction failed for all document pages.'
OcrFailed ==
  <<"O", "C", "R", "_", "F", "A", "I", "L", "E", "D", ":", " ", "T", "e",
    "x", "t", " ", "e", "x", "t", "r", "a", "c", "t", "i", "o", "n", " ",
    "f", "a", "i", "l", "e", "d", " ", "f", "o", "r", " ", "a", "l", "l",
    " ", "d", "o", "c", "u", "m", "e", "n", "t", " ", "p", "a", "g", "e",
    "s", ".">>

\* 'OCR_ERROR: OCR processing failed with error: '
OcrError ==
  <<"O", "C", "R", "_", "E", "R", "R", "O", "R", ":", " ", "O", "C", "R",
    " ", "p", "r", "o", "c", "e", "s", "s", "i", "n", "g", " ", "f", "a",
    "i", "l", "e", "d", " ", "w", "i", "t", "h", " ", "e", "r", "r", "o",
    "r", ":", " ">>

\* more lines of statements of facts
\* 'First line ashore berth no 1234 at 09:30 on 31/08/2025'
BerthNumbered ==
  <<"F", "i", "r", "s", "t", " ", "l", "i", "n", "e", " ", "a", "s", "h",
    "o", "r", "e", " ", "b", "e", "r", "t", "h", " ", "n", "o", " ", "1",
    "2", "3", "4", " ", "a", "t", " ", "0", "9", ":", "3", "0", " ", "o",
    "n", " ", "3", "1", "/", "0", "8", "/", "2", "0", "2", "5">>

\* 'Loading commenced: 0900 HRS 31.12.2024'
CommencedYearEnd ==
  <<"L", "o", "a", "d", "i", "n", "g", " ", "c", "o", "m", "m", "e", "n",
    "c", "e", "d", ":", " ", "0", "9", "0", "0", " ", "H", "R", "S", " ",
    "3", "1", ".", "1", "2", ".", "2", "0", "2", "4">>

\* 'Loading completed: 0900 HRS 01.01.2025'
CompletedNewYear ==
  <<"L", "o", "a", "d", "i", "n", "g", " ", "c", "o", "m", "p", "l", "e",
    "t", "e", "d", ":", " ", "0", "9", "0", "0", " ", "H", "R", "S", " ",
    "0", "1", ".", "0", "1", ".", "2", "0", "2", "5">>

\* 'Bunkering completed'
BunkeringCompleted ==
  <<"B", "u", "n", "k", "e", "r", "i", "n", "g", " ", "c", "o", "m", "p",
    "l", "e", "t", "e", "d">>

\* 'Vessel sailed: 0600 HRS 01.09.2025'
VesselSailed ==
  <<"V", "e", "s", "s", "e", "l", " ", "s", "a", "i", "l", "e", "d", ":",
    " ", "0", "6", "0", "0", " ", "H", "R", "S", " ", "0", "1", ".", "0",
    "9", ".", "2", "0", "2", "5">>

\* 'PORT: GOA'
PortName ==
  <<"P", "O", "R", "T", ":", " ", "G", "O", "A">>

\* the lines the documents of several lines are made of
DocLines == <<AllFast, LoadingCommenced, LoadingCompleted>>

\* the most lines of a document
MaxLines == 2

\* the last reading of the clock
MaxClock == 1

\* '\n'.join(lines)
JoinLines(lines) == JoinRange(<<"\n">>, lines, 1, Len(lines))

\* the documents extract_events is called with: the lines of DocLines in
\* every order, repeated or not, up to MaxLines of them; the other lines alone
\* and behind or before one of those; the texts the text extractor returns
\* in place of a document's text; the texts at the length limit
Documents ==
  {JoinLines([i \in DOMAIN q |-> DocLines[q[i]]]) :
     q \in UNION {[1..n -> 1..Len(DocLines)] : n \in 1..MaxLines}}
  \cup {PilotBoarded, DroppedAnchor, PilotEarly, CustomsDelayed, VesselArrived,
        JoinLines(<<VesselArrived, LoadingCommenced>>),
        JoinLines(<<LoadingCommenced, CustomsDelayed>>),
        JoinLines(<<VesselName, VesselArrived>>),
        JoinLines(<<VesselArrived, PilotEarly>>),
        BerthNumbered,
        JoinLines(<<CommencedYearEnd, CompletedNewYear>>),
        BunkeringCompleted,
        JoinLines(<<CustomsDelayed, CustomsDelayed>>),
        VesselSailed,
        JoinLines(<<VesselName, PortName, LoadingCommenced>>)}
  \cup {OcrUnavailable, OcrFailed, OcrError}
  \cup {Empty, Blank, BlankLines, Padded, NineChars, TenChars}

\* self.nlp after __init__: "none" when spacy.load raised OSError
Engines == {"none", "lines", "whole", "raises"}

-----------------------------------------------------------------------------
(* extract_events *)

\* the candidates of the whole catalog, entry by entry
ScanCatalog(t) ==
  Flatten([d \in 1..Len(event_patterns) |-> _extract_with_patterns(t, event_patterns[d])])

\* the name the first pattern with a match gives, when it is longer than 2
\* characters; else the next pattern is tried
RECURSIVE FirstName(_, _, _)
FirstName(patterns, i, t) ==
  IF i > Len(patterns) THEN None
  ELSE LET m == search(patterns[i], t)
           name == Strip(groups(m[1], t)[1])
       IN IF m # <<>> /\ Len(name) > 2 THEN name
          ELSE FirstName(patterns, i + 1, t)

\* What the scans of a text find: the candidates of the catalog, the
\* candidates of the engine, the names of the vessel and of the port.
Scan(t) ==
  [candidates |-> ScanCatalog(t),
   sentences |-> [engine \in Engines \ {"none"} |-> ScanSentences(engine, t)] @@ <<>>,
   vessel |-> FirstName(vessel_patterns, 1, t),
   port |-> FirstName(port_patterns, 1, t)]

\* The scans depend on the text (and on the engine) alone: they are computed
\* once for each document, and the calls read them here.
Scanned == [t \in Documents |-> Scan(t)] @@ <<>>

\* for pattern_info in self.event_patterns:
\*     events.extend(self._extract_with_patterns(text, pattern_info))
PatternCandidates(t) == Scanned[t].candidates

_extract_with_nlp(engine, t) == Scanned[t].sentences[engine]

_extract_vessel_name(t) == Scanned[t].vessel

_extract_port_name(t) == Scanned[t].port

\* an enrichment that lets the clock into document_length
_enhance_events_with_context_clocked(es, t, stamp) ==
  [i \in 1..Len(es) |->
     es[i] @@ [document_length |-> Len(t) + stamp, extraction_timestamp |-> stamp]]

\* an enrichment that puts the names on the first event alone
_enhance_events_with_context_first(es, t, stamp) ==
  [i \in 1..Len(es) |->
     LET vessel_name == IF i = 1 THEN _extract_vessel_name(t) ELSE None
         port_name == IF i = 1 THEN _extract_port_name(t) ELSE None
     IN es[i]
        @@ (IF Truthy(vessel_name) THEN [vessel |-> vessel_name] ELSE <<>>)
        @@ (IF Truthy(port_name) THEN [port |-> port_name] ELSE <<>>)
        @@ [document_length |-> Len(t), extraction_timestamp |-> stamp]]

\* stamp is what datetime.now() reads.  No candidate has a 'vessel' or a
\* 'port' key, so both names are looked up for every event.
_enhance_events_with_context(es, t, stamp) ==
  [i \in 1..Len(es) |->
     LET vessel_name == _extract_vessel_name(t)
         port_name == _extract_port_name(t)
     IN es[i]
        @@ (IF Truthy(vessel_name) THEN [vessel |-> vessel_name] ELSE <<>>)
        @@ (IF Truthy(port_name) THEN [port |-> port_name] ELSE <<>>)
        @@ [document_length |-> Len(t), extraction_timestamp |-> stamp]]

\* the candidates handed to _remove_duplicates
Candidates(engine, t) ==
  PatternCandidates(t) \o (IF engine # "none" THEN _extract_with_nlp(engine, t) ELSE <<>>)

\* events = self._remove_duplicates(events)
\* events = self._sort_events_by_time(events)
Arrange(engine, t) == _sort_events_by_time(_remove_duplicates(Candidates(engine, t)))

\* The candidates, and so their arrangement, depend on the engine and the
\* text alone: they are arranged once for each document, and the calls read
\* them here.
Arranged == [t \in Documents |-> [engine \in Engines |-> Arrange(engine, t)] @@ <<>>] @@ <<>>

\* extract_events with the guard on the length of the text as given
extract_events_untrimmed(engine, t, stamp) ==
  IF ~Truthy(t) \/ Len(t) < 10 THEN <<>>
  ELSE _enhance_events_with_context(
         _sort_events_by_time(_remove_duplicates(Candidates(engine, t))), t, stamp)

\* extract_events with a branch for the texts the text extractor returns
\* when OCR is not to be had
extract_events_sentinel_aware(engine, t, stamp) ==
  IF ~Truthy(t) \/ Len(Strip(t)) < 10 THEN <<>>
  ELSE IF LitAt(t, 1, <<"O", "C", "R", "_">>) THEN <<>>
  ELSE _enhance_events_with_context(
         _sort_events_by_time(_remove_duplicates(Candidates(engine, t))), t, stamp)

extract_events(engine, t, stamp) ==
  IF ~Truthy(t) \/ Len(Strip(t)) < 10 THEN <<>>
  ELSE _enhance_events_with_context(Arranged[t][engine], t, stamp)

\* The calls of self._extract_vessel_name(text) one call of
\* _enhance_events_with_context makes: the call stands inside the loop over
\* the events, under "if not enhanced_event.get('vessel')".
_enhance_events_with_context_lookups(es) ==
  Len(SelectSeq(es, LAMBDA e : ~Truthy(Get(e, "vessel"))))

\* the calls of self._extract_vessel_name(text) one extract_events(t) makes
extract_events_lookups(engine, t) ==
  IF ~Truthy(t) \/ Len(Strip(t)) < 10 THEN 0
  ELSE _enhance_events_with_context_lookups(Arranged[t][engine])

\* Whether extract_events lets an exception out.  The text is a str: strip,
\* len, re.finditer, re.search, the dict and list operations of
\* _remove_duplicates and _enhance_events_with_context do not raise on it;
\* _extract_structured_event, _format_time_date, _get_context_around_match
\* and _sort_events_by_time catch what their bodies raise.  What is left is
\* the call of the engine.
extract_events_raises(engine, t) ==
  /\ Truthy(t) /\ Len(Strip(t)) >= 10
  /\ engine # "none"
  /\ _extract_with_nlp_raises(engine, t)

-----------------------------------------------------------------------------
(* get_extraction_summary *)

\* event.get(field, default)
GetOr(e, field, default) == IF field \in DOMAIN e THEN e[field] ELSE default

\* sum(confidences)
RECURSIVE SumRange(_, _, _)
SumRange(ns, lo, hi) ==
  IF lo > hi THEN 0
  ELSE IF lo = hi THEN ns[lo]
  ELSE LET mid == (lo + hi) \div 2
       IN SumRange(ns, lo, mid) + SumRange(ns, mid + 1, hi)

\* round(total / count, 3), in thousandths, of a total in hundredths.  A
\* quotient halfway between two thousandths is rounded as its binary value
\* falls; the even neighbour is taken for it here.
RoundedMean(total, count) ==
  LET q == (10 * total) \div count
      r == (10 * total) % count
  IN IF 2 * r < count THEN q
     ELSE IF 2 * r > count THEN q + 1
     ELSE IF q % 2 = 0 THEN q ELSE q + 1

\* a summary with high_confidence_events counting the confidences above 0.9
get_extraction_summary_above(es) ==
  IF es = <<>> THEN [message |-> "No events extracted"]
  ELSE
    LET at == 1..Len(es)
        confidences == [i \in at |-> GetOr(es[i], "confidence", 0)]
    IN [total_events |-> Len(es),
        event_types |->
          [type \in {es[i].event_type : i \in at} |->
             Cardinality({i \in at : es[i].event_type = type})],
        average_confidence |-> RoundedMean(SumRange(confidences, 1, Len(es)), Len(es)),
        high_confidence_events |-> Cardinality({i \in at : confidences[i] > 90}),
        extraction_methods |-> {GetOr(es[i], "extraction_method", "unknown") : i \in at},
        time_coverage |-> Cardinality({i \in at : Truthy(Get(es[i], "start_time"))}),
        location_coverage |-> Cardinality({i \in at : Truthy(Get(es[i], "location"))})]

\* confidences are in hundredths and average_confidence is in thousandths;
\* extraction_methods is list(set(...)): the methods in the order the set
\* gives them, which the code does not fix, so it is kept as the set
get_extraction_summary(es) ==
  IF es = <<>> THEN [message |-> "No events extracted"]
  ELSE
    LET at == 1..Len(es)
        confidences == [i \in at |-> GetOr(es[i], "confidence", 0)]
    IN [total_events |-> Len(es),
        event_types |->
          [type \in {es[i].event_type : i \in at} |->
             Cardinality({i \in at : es[i].event_type = type})],
        average_confidence |-> RoundedMean(SumRange(confidences, 1, Len(es)), Len(es)),
        high_confidence_events |-> Cardinality({i \in at : confidences[i] >= 90}),
        extraction_methods |-> {GetOr(es[i], "extraction_method", "unknown") : i \in at},
        time_coverage |-> Cardinality({i \in at : Truthy(Get(es[i], "start_time"))}),
        location_coverage |-> Cardinality({i \in at : Truthy(Get(es[i], "location"))})]
-----------------------------------------------------------------------------
(* The extractor as a state machine *)

\* the most extractors constructed in one process
MaxExtractors == 2

\* the process after its first EnhancedMaritimeExtractor(): spacy.load was
\* called once, the engine is there or not, the catalog is fixed
Init ==
  /\ extractors = 1
  /\ loads = 1
  /\ lookups = 0
  /\ nlp \in Engines
  /\ text = None
  /\ events = <<>>
  /\ prevEvents = <<>>
  /\ now = 0
  /\ x = <<>>
  /\ y = <<>>
  /\ z = <<>>
  /\ pc = "run"

\* one more EnhancedMaritimeExtractor(): __init__ calls spacy.load again and
\* keeps what it gets in self.nlp of the new object, which the calls that
\* follow are made on
Construct ==
  /\ pc = "run"
  /\ extractors < MaxExtractors
  /\ extractors' = extractors + 1
  /\ loads' = loads + 1
  /\ lookups' = 0
  /\ nlp' \in Engines
  /\ text' = None
  /\ events' = <<>>
  /\ prevEvents' = <<>>
  /\ UNCHANGED <<now, x, y, z, pc>>

\* a call extract_events(t).  datetime.now() is read once for every event;
\* the readings of one call are taken to be the same reading, now.
ExtractEvents(t) ==
  /\ pc = "run"
  /\ text' = t
  /\ IF extract_events_raises(nlp, t)
     THEN pc' = "raised" /\ lookups' = 0 /\ UNCHANGED <<events, prevEvents>>
     ELSE /\ pc' = pc
          /\ lookups' = extract_events_lookups(nlp, t)
          /\ events' = extract_events(nlp, t, now)
          /\ prevEvents' = IF text = t THEN <<events>> ELSE <<>>
  /\ UNCHANGED <<extractors, loads, nlp, now, x, y, z>>

\* time passes between two calls
Tick ==
  /\ pc = "run"
  /\ now < MaxClock
  /\ now' = now + 1
  /\ UNCHANGED <<extractors, loads, lookups, nlp, text, events, prevEvents, x, y, z, pc>>

Next ==
  \/ Construct
  \/ \E t \in Documents : ExtractEvents(t)
  \/ Tick

Spec == Init /\ [][Next]_vars

-----------------------------------------------------------------------------
(* _remove_duplicates on its own: applied to a list, then to its result *)

\* the longest list
MaxLen == 3

\* the events of the lists: of two types, under two names, with and without
\* a time, with and without a location
EventPool ==
  {[event_type |-> type, event |-> name, start_time |-> time, location |-> place] :
     type \in {"cargo", "pilot"},
     name \in {"Loading Commenced", "Loading Completed"},
     time \in {None, <<"1", "0", ":", "0", "0">>},
     place \in {None, <<"G", "o", "a">>}}

EventLists == UNION {[1..n -> EventPool] : n \in 0..MaxLen}

InitDedup ==
  /\ extractors = 1
  /\ loads = 1
  /\ lookups = 0
  /\ nlp = "none"
  /\ text = None
  /\ events = <<>>
  /\ prevEvents = <<>>
  /\ now = 0
  /\ x \in EventLists
  /\ y = <<>>
  /\ z = <<>>
  /\ pc = "in"

DedupOnce ==
  /\ pc = "in"
  /\ y' = _remove_duplicates(x)
  /\ pc' = "once"
  /\ UNCHANGED <<extractors, loads, lookups, nlp, text, events, prevEvents, now, x, z>>

DedupTwice ==
  /\ pc = "once"
  /\ z' = _remove_duplicates(y)
  /\ pc' = "twice"
  /\ UNCHANGED <<extractors, loads, lookups, nlp, text, events, prevEvents, now, x, y>>

NextDedup == DedupOnce \/ DedupTwice

SpecDedup == InitDedup /\ [][NextDedup]_vars


-----------------------------------------------------------------------------
(* _format_time_date on its own: applied to a time and a date *)

\* the longest time and the longest date made of the characters below
MaxTimeLen == 4
MaxDateLen == 3

\* the strings of at most n characters of an alphabet
Strings(alphabet, n) == UNION {[1..k -> alphabet] : k \in 0..n}

\* "1712" and "16.02.2024"
Hhmm1712 == <<"1", "7", "1", "2">>
Date16022024 == <<"1", "6", ".", "0", "2", ".", "2", "0", "2", "4">>

\* the arguments: None, the empty string, digits with and without colons;
\* None, the empty string, digits with the three separators
TimeInputs == {None, Hhmm1712} \cup Strings({"1", "7", ":"}, MaxTimeLen)
DateInputs == {None, Date16022024} \cup Strings({"1", ".", "/", "-"}, MaxDateLen)

InitFormat ==
  /\ extractors = 1
  /\ loads = 1
  /\ lookups = 0
  /\ nlp = "none"
  /\ text = None
  /\ events = <<>>
  /\ prevEvents = <<>>
  /\ now = 0
  /\ x \in TimeInputs
  /\ y \in DateInputs
  /\ z = <<>>
  /\ pc = "format"

\* a call _format_time_date(x, y)
FormatTimeDate ==
  /\ pc = "format"
  /\ z' = _format_time_date(x, y)
  /\ pc' = "formatted"
  /\ UNCHANGED <<extractors, loads, lookups, nlp, text, events, prevEvents, now, x, y>>

NextFormat == FormatTimeDate

SpecFormat == InitFormat /\ [][NextFormat]_vars

-----------------------------------------------------------------------------
(* get_extraction_summary on its own: applied to a list of events *)

\* the longest list summarized
MaxEvents == 2

\* the events summarized: of two types, just below and at the confidence
\* that counts as high, of the two methods, with and without a time, with and
\* without a location; and an event of each type with event_type alone
SummaryPool ==
  {[event_type |-> type, confidence |-> confidence, extraction_method |-> method,
    start_time |-> time, location |-> place] :
     type \in {"cargo", "pilot"},
     confidence \in {89, 90},
     method \in {"pattern_matching", "nlp_context"},
     time \in {None, <<"1", "0", ":", "0", "0">>},
     place \in {None, <<"G", "o", "a">>}}
  \cup {[event_type |-> type] : type \in {"cargo", "pilot"}}

SummaryLists == UNION {[1..n -> SummaryPool] : n \in 0..MaxEvents}

InitSummary ==
  /\ extractors = 1
  /\ loads = 1
  /\ lookups = 0
  /\ nlp = "none"
  /\ text = None
  /\ events = <<>>
  /\ prevEvents = <<>>
  /\ now = 0
  /\ x \in SummaryLists
  /\ y = <<>>
  /\ z = <<>>
  /\ pc = "summarize"

\* a call get_extraction_summary(x)
GetExtractionSummary ==
  /\ pc = "summarize"
  /\ y' = get_extraction_summary(x)
  /\ pc' = "summarized"
  /\ UNCHANGED <<extractors, loads, lookups, nlp, text, events, prevEvents, now, x, z>>

NextSummary == GetExtractionSummary

SpecSummary == InitSummary /\ [][NextSummary]_vars

-----------------------------------------------------------------------------
(* _calculate_confidence on its own: applied to an entry, a match, its groups *)

\* the most groups of a match
MaxGroups == 2

\* the base confidences: those of the catalog, and 0.0, 0.05 and 1.0, with
\* which the sum leaves [0.0, 1.0] on either side
Bases == {event_patterns[d].confidence : d \in 1..Len(event_patterns)} \cup {0, 5, 100}

\* matches of 8, 9 and 10 characters, and one of 13 with 8 left by strip()
FullMatches == {AllFast, NineChars, TenChars, Padded}

\* match.groups(): a group that took no part is None, one that matched
\* nothing is ''
GroupTuples == UNION {[1..n -> {None, <<>>, Hhmm1712}] : n \in 0..MaxGroups}

InitConfidence ==
  /\ extractors = 1
  /\ loads = 1
  /\ lookups = 0
  /\ nlp = "none"
  /\ text = None
  /\ events = <<>>
  /\ prevEvents = <<>>
  /\ now = 0
  /\ x \in [pattern_info : {[confidence |-> base] : base \in Bases},
            full_match : FullMatches,
            groups : GroupTuples]
  /\ y = <<>>
  /\ z = <<>>
  /\ pc = "score"

\* a call _calculate_confidence(pattern_info, full_match, groups)
CalculateConfidence ==
  /\ pc = "score"
  /\ y' = _calculate_confidence(x.pattern_info, x.full_match, x.groups)
  /\ pc' = "scored"
  /\ UNCHANGED <<extractors, loads, lookups, nlp, text, events, prevEvents, now, x, z>>

NextConfidence == CalculateConfidence

SpecConfidence == InitConfidence /\ [][NextConfidence]_vars
-----------------------------------------------------------------------------
(* _sort_events_by_time on its own *)

\* the longest list sorted
MaxSort == 4

Nine == <<"0", "9", ":", "0", "0">>
Ten == <<"1", "0", ":", "0", "0">>

\* the events of the lists: under two names, with a 'timestamp' that is
\* None, '' or one of two times, and, as the fallback's events, without the key
SortPool ==
  {[event |-> name, timestamp |-> time] :
     name \in {"Loading Commenced", "Loading Completed"},
     time \in {None, <<>>, Nine, Ten}}
  \cup {[event |-> "Customs Operation"]}

SortLists == UNION {[1..n -> SortPool] : n \in 0..MaxSort}

InitSort ==
  /\ extractors = 1
  /\ loads = 1
  /\ lookups = 0
  /\ nlp = "none"
  /\ text = None
  /\ events = <<>>
  /\ prevEvents = <<>>
  /\ now = 0
  /\ x \in SortLists
  /\ y = <<>>
  /\ z = <<>>
  /\ pc = "unsorted"

SortEventsByTime ==
  /\ pc = "unsorted"
  /\ y' = _sort_events_by_time(x)
  /\ pc' = "sorted"
  /\ UNCHANGED <<extractors, loads, lookups, nlp, text, events, prevEvents, now, x, z>>

NextSort == SortEventsByTime

SpecSort == InitSort /\ [][NextSort]_vars
-----------------------------------------------------------------------------
(* Calls of extract_events and get_extraction_summary on one extractor from
   several threads.  A thread runs one call; the steps of the calls are
   interleaved in every way.  x[th] is the call of thread th, pc[th] the
   statement it is at, z[th] what its call returned.  y holds the memory:
   y.self is what the calls read through self, y.events and y.event_counts
   are the cells of the local variables `events` and `event_counts`. *)

\* the most threads
MaxThreads == 2

Threads == 1..MaxThreads

\* the texts the threads call extract_events with
ThreadDocs == {LoadingCommenced, JoinLines(<<LoadingCommenced, CustomsDelayed>>), NineChars}

\* the calls: extract_events(text), and get_extraction_summary(events) for
\* no events, for a timed cargo event and a customs event of the fallback,
\* and for these with a second cargo event in front
ThreadCalls ==
  LET cargo == [event_type |-> "cargo", confidence |-> 100, start_time |-> Ten,
                location |-> None, extraction_method |-> "pattern_matching"]
      customs == [event_type |-> "customs", confidence |-> 70, start_time |-> None,
                  location |-> None, extraction_method |-> "nlp_context"]
  IN {[op |-> "extract_events", arg |-> t] : t \in ThreadDocs}
     \cup {[op |-> "get_extraction_summary", arg |-> es] :
             es \in {<<>>, <<cargo, customs>>, <<cargo, cargo, customs>>}}

\* self.event_patterns, by the names of its entries, and
\* self.maritime_keywords['operation_indicators']
Tables ==
  [event_patterns |-> [d \in 1..Len(event_patterns) |-> event_patterns[d].name],
   operation_indicators |-> operation_indicators]

\* a cell that all calls have in common, as an attribute of self would be
Shared(th) == 1

\* The cell of the local variables of the call of thread th: `events = []`
\* (line 311) and `event_counts = defaultdict(int)` (line 661) bind a name
\* of the frame of the call, which every call has for itself.
Local(th) == th

InitThreads ==
  /\ extractors = 1
  /\ loads = 1
  /\ lookups = 0
  /\ nlp \in Engines
  /\ text = None
  /\ events = <<>>
  /\ prevEvents = <<>>
  /\ now = 0
  /\ x \in [Threads -> ThreadCalls]
  /\ y = [self |-> Tables,
          events |-> [c \in Threads |-> <<>>],
          event_counts |-> [c \in Threads |-> <<>>]]
  /\ z = [th \in Threads |-> <<>>]
  /\ pc = [th \in Threads |-> "start"]

\* if not text or len(text.strip()) < 10: return [];  events = []
ExtractStart(th) ==
  /\ pc[th] = "start"
  /\ x[th].op = "extract_events"
  /\ IF ~Truthy(x[th].arg) \/ Len(Strip(x[th].arg)) < 10
     THEN /\ z' = [z EXCEPT ![th] = <<>>]
          /\ pc' = [pc EXCEPT ![th] = "done"]
          /\ y' = y
     ELSE /\ y' = [y EXCEPT !.events[Local(th)] = <<>>]
          /\ pc' = [pc EXCEPT ![th] = "patterns"]
          /\ z' = z
  /\ UNCHANGED <<extractors, loads, lookups, nlp, text, events, prevEvents, now, x>>

\* for pattern_info in self.event_patterns: events.extend(...)
ExtendWithPatterns(th) ==
  /\ pc[th] = "patterns"
  /\ y' = [y EXCEPT !.events[Local(th)] = @ \o PatternCandidates(x[th].arg)]
  /\ pc' = [pc EXCEPT ![th] = "nlp"]
  /\ UNCHANGED <<extractors, loads, lookups, nlp, text, events, prevEvents, now, x, z>>

\* if self.nlp: events.extend(self._extract_with_nlp(text))
ExtendWithNlp(th) ==
  /\ pc[th] = "nlp"
  /\ y' = [y EXCEPT !.events[Local(th)] =
             IF nlp # "none" THEN @ \o _extract_with_nlp(nlp, x[th].arg) ELSE @]
  /\ pc' = [pc EXCEPT ![th] = "dedup"]
  /\ UNCHANGED <<extractors, loads, lookups, nlp, text, events, prevEvents, now, x, z>>

\* events = self._remove_duplicates(events)
RemoveDuplicates(th) ==
  /\ pc[th] = "dedup"
  /\ y' = [y EXCEPT !.events[Local(th)] = _remove_duplicates(@)]
  /\ pc' = [pc EXCEPT ![th] = "sort"]
  /\ UNCHANGED <<extractors, loads, lookups, nlp, text, events, prevEvents, now, x, z>>

\* events = self._sort_events_by_time(events)
SortEvents(th) ==
  /\ pc[th] = "sort"
  /\ y' = [y EXCEPT !.events[Local(th)] = _sort_events_by_time(@)]
  /\ pc' = [pc EXCEPT ![th] = "enhance"]
  /\ UNCHANGED <<extractors, loads, lookups, nlp, text, events, prevEvents, now, x, z>>

\* events = self._enhance_events_with_context(events, text)
EnhanceEvents(th) ==
  /\ pc[th] = "enhance"
  /\ LET enhanced == _enhance_events_with_context(y.events[Local(th)], x[th].arg, now)
     IN y' = [y EXCEPT !.events[Local(th)] = enhanced]
  /\ pc' = [pc EXCEPT ![th] = "return"]
  /\ UNCHANGED <<extractors, loads, lookups, nlp, text, events, prevEvents, now, x, z>>

\* return events
ExtractReturn(th) ==
  /\ pc[th] = "return"
  /\ z' = [z EXCEPT ![th] = y.events[Local(th)]]
  /\ pc' = [pc EXCEPT ![th] = "done"]
  /\ UNCHANGED <<extractors, loads, lookups, nlp, text, events, prevEvents, now, x, y>>

\* if not events: return {"message": ...};  event_counts = defaultdict(int)
SummaryStart(th) ==
  /\ pc[th] = "start"
  /\ x[th].op = "get_extraction_summary"
  /\ IF x[th].arg = <<>>
     THEN /\ z' = [z EXCEPT ![th] = [message |-> "No events extracted"]]
          /\ pc' = [pc EXCEPT ![th] = "done"]
          /\ y' = y
     ELSE /\ y' = [y EXCEPT !.event_counts[Local(th)] = <<>>]
          /\ pc' = [pc EXCEPT ![th] = "count"]
          /\ z' = z
  /\ UNCHANGED <<extractors, loads, lookups, nlp, text, events, prevEvents, now, x>>

\* for event in events: event_counts[event['event_type']] += 1
SummaryCount(th) ==
  /\ pc[th] = "count"
  /\ LET es == x[th].arg
         types == {es[i].event_type : i \in 1..Len(es)}
     IN y' = [y EXCEPT !.event_counts[Local(th)] =
                [type \in DOMAIN @ \cup types |->
                   (IF type \in DOMAIN @ THEN @[type] ELSE 0)
                     + Cardinality({i \in 1..Len(es) : es[i].event_type = type})]]
  /\ pc' = [pc EXCEPT ![th] = "summarize"]
  /\ UNCHANGED <<extractors, loads, lookups, nlp, text, events, prevEvents, now, x, z>>

\* return {..., "event_types": dict(event_counts), ...}: the other entries
\* are computed from the argument in the return statement
SummaryReturn(th) ==
  /\ pc[th] = "summarize"
  /\ z' = [z EXCEPT ![th] =
             [get_extraction_summary(x[th].arg) EXCEPT
                !.event_types = y.event_counts[Local(th)]]]
  /\ pc' = [pc EXCEPT ![th] = "done"]
  /\ UNCHANGED <<extractors, loads, lookups, nlp, text, events, prevEvents, now, x, y>>

NextThreads ==
  \E th \in Threads :
    \/ ExtractStart(th)
    \/ ExtendWithPatterns(th)
    \/ ExtendWithNlp(th)
    \/ RemoveDuplicates(th)
    \/ SortEvents(th)
    \/ EnhanceEvents(th)
    \/ ExtractReturn(th)
    \/ SummaryStart(th)
    \/ SummaryCount(th)
    \/ SummaryReturn(th)

SpecThreads == InitThreads /\ [][NextThreads]_vars
-----------------------------------------------------------------------------
(* The properties *)

\* the latest call was extract_events(t)
Called(t) == text = t

\* C1: a call with a text whose whitespace-trimmed length is below 10 (the
\* empty and the whitespace-only texts among them) returns the empty sequence.
ShortTextYieldsNothing ==
  (text # None /\ Len(Strip(text)) < 10) => events = <<>>

\* a text of 13 characters, 8 of them after trimming, was answered with []
ShortTextAnswered ==
  /\ Called(Padded)
  /\ Len(text) >= 10
  /\ Len(Strip(text)) < 10
  /\ events = <<>>

\* the documents of two lines the properties name
CargoDocument == JoinLines(<<LoadingCommenced, LoadingCompleted>>)
ArrivalThenCargo == JoinLines(<<VesselArrived, LoadingCommenced>>)
CargoThenCustoms == JoinLines(<<LoadingCommenced, CustomsDelayed>>)
AllFastTwice == JoinLines(<<AllFast, AllFast>>)

\* C2: in the sequence extract_events returns no two events have the same
\* (event_type, start_time, location) key, sorted and enriched as they are.
KeysUnique ==
  \A i, j \in 1..Len(events) : i # j => KeyOf(events[i]) # KeyOf(events[j])

\* of the four candidates of the cargo document two have the key
\* (cargo, None, None); three events with three keys were returned
DuplicateDropped ==
  /\ Called(CargoDocument)
  /\ Len(Candidates(nlp, text)) >= 4
  /\ Len(events) = 3
  /\ Cardinality({KeyOf(events[i]) : i \in 1..Len(events)}) = 3

\* C3: in the sequence extract_events returns every event with a start_time
\* is before every event without one, and the start_times of the timed events
\* never decrease, as strings, along the sequence.
TimedFirstInOrder ==
  \A i, j \in 1..Len(events) :
    i < j =>
      /\ Truthy(events[j].start_time) => Truthy(events[i].start_time)
      /\ (Truthy(events[i].start_time) /\ Truthy(events[j].start_time))
           => ~StrLess(events[j].start_time, events[i].start_time)

\* the arrival of 20:00 is the first candidate and the second event, behind
\* the loading of 10:00 and before the untimed one
SortReordered ==
  /\ Called(ArrivalThenCargo)
  /\ Candidates(nlp, text)[1].event_type = "arrival"
  /\ Len(events) = 3
  /\ events[1].event_type = "cargo" /\ Truthy(events[1].start_time)
  /\ events[2].event_type = "arrival" /\ Truthy(events[2].start_time)
  /\ ~Truthy(events[3].start_time)

\* C4: every event extract_events returns, from a pattern or from the
\* linguistic fallback, has a confidence from 0.0 to 1.0 (0 to 100 hundredths).
ConfidenceInRange ==
  \A i \in 1..Len(events) : events[i].confidence \in 0..100

\* a pattern event at the upper limit and an event of the fallback
ConfidenceAtLimit ==
  /\ Called(CargoThenCustoms)
  /\ \E i \in 1..Len(events) :
       events[i].extraction_method = "pattern_matching" /\ events[i].confidence = 100
  /\ \E i \in 1..Len(events) :
       events[i].extraction_method = "nlp_context" /\ events[i].confidence = 70

\* an event without its extraction_timestamp
Unstamped(e) == [f \in DOMAIN e \ {"extraction_timestamp"} |-> e[f]]

DroppedAnchorTime ==
  <<"1", "7", ":", "1", "2", " ", "1", "6", "/", "0", "2", "/", "2", "0", "2", "4">>

\* "08:15 31/08/2025"
PilotBoardedTime ==
  <<"0", "8", ":", "1", "5", " ", "3", "1", "/", "0", "8", "/", "2", "0", "2", "5">>

\* "10:00 31/08/2025"
CommencedTime ==
  <<"1", "0", ":", "0", "0", " ", "3", "1", "/", "0", "8", "/", "2", "0", "2", "5">>

\* "18:00 31/08/2025"
CompletedTime ==
  <<"1", "8", ":", "0", "0", " ", "3", "1", "/", "0", "8", "/", "2", "0", "2", "5">>

\* the positions of the events of one type in the returned sequence
OfType(type) == {i \in 1..Len(events) : events[i].event_type = type}

\* C6: extract_events("VESSEL DROPPED ANCHOR 1712 HRS 16.02.2024") returns
\* exactly one event of type arrival, with start_time "17:12 16/02/2024".
DroppedAnchorExample ==
  Called(DroppedAnchor) =>
    /\ Cardinality(OfType("arrival")) = 1
    /\ \A i \in OfType("arrival") : events[i].start_time = DroppedAnchorTime

\* C7: extract_events("Pilot boarded for berthing at 08:15 on 31/08/2025")
\* returns a sequence with an event of type pilot whose start_time is
\* "08:15 31/08/2025".
PilotBoardedExample ==
  Called(PilotBoarded) =>
    \E i \in OfType("pilot") : events[i].start_time = PilotBoardedTime

Bare(e) == ~Truthy(e.start_time) /\ ~Truthy(e.location)

\* the number of times "all fast" is in t, in any case
AllFastCount(t) ==
  Cardinality({i \in 1..Len(t) : LitAt(Lower(t), i, Lower(AllFast))})

\* C9: the candidates of one event_type that have neither start_time nor
\* location leave exactly one event in the answer, whatever their names; a
\* document with "All fast" twice and no time or date gives one berthing event.
BareCandidatesCollapse ==
  (text # None /\ Len(Strip(text)) >= 10) =>
    /\ \A c \in 1..Len(Candidates(nlp, text)) :
         Bare(Candidates(nlp, text)[c]) =>
           Cardinality({i \in OfType(Candidates(nlp, text)[c].event_type) : Bare(events[i])}) = 1
    /\ (AllFastCount(text) >= 2 /\ \A k \in 1..Len(text) : text[k] \notin Digit)
         => Cardinality(OfType("berthing")) = 1

\* "All fast" twice: two candidates, one event; and the bare candidates
\* "Loading Commenced" and "Loading Completed": one bare cargo event
AllFastTwiceCollapsed ==
  /\ Called(AllFastTwice)
  /\ Len(Candidates(nlp, text)) = 2
  /\ Len(events) = 1
  /\ events[1].event_type = "berthing"

\* C10: _remove_duplicates applied to its own result changes nothing: the
\* same events in the same order.
DedupIdempotent == pc = "twice" => z = y

\* a list of three events with one key: one event after the first pass
ThreeOfOneKey ==
  /\ pc = "twice"
  /\ Len(x) = 3
  /\ Len(y) = 1
  /\ z = y


\* a part that is there: not None and not the empty string
Present(s) == s # None /\ Len(s) > 0

\* the time as the answer has it
ColonAfterTwo(s) ==
  IF Len(s) = 4 /\ \A i \in 1..Len(s) : s[i] # ":"
  THEN <<s[1], s[2], ":", s[3], s[4]>>
  ELSE s

\* the date as the answer has it
Slashed(s) == [i \in 1..Len(s) |-> IF s[i] = "." \/ s[i] = "-" THEN "/" ELSE s[i]]

\* C11: _format_time_date(time, date) is the time, with a colon put behind
\* its first two characters when it has 4 characters and no colon and unchanged
\* otherwise, then one space, then the date with every '.', '/' and '-'
\* replaced by '/'; a part that is not there is left out with the space; the
\* answer is None when neither part is there.  ("1712", "16.02.2024") gives
\* "17:12 16/02/2024".
FormatContract ==
  pc = "formatted" =>
    /\ (Present(x) /\ Present(y)) => z = ColonAfterTwo(x) \o <<" ">> \o Slashed(y)
    /\ (Present(x) /\ ~Present(y)) => z = ColonAfterTwo(x)
    /\ (~Present(x) /\ Present(y)) => z = Slashed(y)
    /\ (~Present(x) /\ ~Present(y)) => z = None
    /\ (x = Hhmm1712 /\ y = Date16022024) => z = DroppedAnchorTime

\* the call of the example was made and answered
FormattedExample ==
  /\ pc = "formatted"
  /\ x = Hhmm1712
  /\ y = Date16022024
  /\ z = DroppedAnchorTime

\* the positions of x with an event that has the field, and those where the
\* field (a string or None) is not None
Has(field) == {i \in 1..Len(x) : field \in DOMAIN x[i]}
Having(field) == {i \in Has(field) : x[i][field] # None}

\* the total of a per-type count
RECURSIVE CountTotal(_, _)
CountTotal(counts, types) ==
  IF types = {} THEN 0
  ELSE LET type == CHOOSE type \in types : TRUE
       IN counts[type] + CountTotal(counts, types \ {type})

\* C12: get_extraction_summary answers the empty list with the "no events"
\* record; for a list with events it answers with their number, the count of
\* each event_type (the counts add up to that number), the number of events
\* of confidence 0.90 or more, the set of the extraction_method values that
\* occur, the number of events with a start_time and the number with a location.
SummaryContract ==
  pc = "summarized" =>
    IF Len(x) = 0 THEN y = [message |-> "No events extracted"]
    ELSE /\ y.total_events = Len(x)
         /\ \A type \in DOMAIN y.event_types :
              y.event_types[type] = Cardinality({i \in 1..Len(x) : x[i].event_type = type})
         /\ CountTotal(y.event_types, DOMAIN y.event_types) = Len(x)
         /\ y.high_confidence_events =
              Cardinality({i \in Has("confidence") : x[i].confidence >= 90})
         /\ y.extraction_methods =
              {x[i].extraction_method : i \in Has("extraction_method")}
              \cup (IF Has("extraction_method") # 1..Len(x) THEN {"unknown"} ELSE {})
         /\ y.time_coverage = Cardinality(Having("start_time"))
         /\ y.location_coverage = Cardinality(Having("location"))

\* two events of two types and two methods, one of them at 0.90 exactly, one
\* with a time, none with a location
SummarizedTwo ==
  /\ pc = "summarized"
  /\ Len(x) = 2
  /\ x[1].event_type # x[2].event_type
  /\ y.total_events = 2
  /\ y.high_confidence_events = 1
  /\ Cardinality(y.extraction_methods) = 2
  /\ y.time_coverage = 1
  /\ y.location_coverage = 0

EngineLoadedOnce == loads = 1

\* "HH:MM DD/MM/YYYY": digits, a colon, a space and two slashes in their places
IsNormalized(s) ==
  /\ Len(s) = 16
  /\ \A i \in {1, 2, 4, 5, 7, 8, 10, 11, 13, 14, 15, 16} : s[i] \in Digit
  /\ s[3] = ":" /\ s[6] = " " /\ s[9] = "/" /\ s[12] = "/"

\* C14: the start_time of every event extract_events returns is None or a
\* string of the form "HH:MM DD/MM/YYYY": two digits, a colon, two digits, a
\* space, two digits, a slash, two digits, a slash, four digits.
StartTimeNormalized ==
  \A i \in 1..Len(events) :
    events[i].start_time = None \/ IsNormalized(events[i].start_time)

\* the prefixes of the texts that stand for a document OCR could not read
SentinelPrefixes ==
  {<<"O", "C", "R", "_", "U", "N", "A", "V", "A", "I", "L", "A", "B", "L", "E">>,
   <<"O", "C", "R", "_", "F", "A", "I", "L", "E", "D">>,
   <<"O", "C", "R", "_", "E", "R", "R", "O", "R">>}

IsSentinel(t) == \E prefix \in SentinelPrefixes : LitAt(t, 1, prefix)

\* C16: a text that starts with OCR_UNAVAILABLE, OCR_FAILED or OCR_ERROR goes
\* through extract_events as any text does: the call returns, and what it
\* returns is the candidates of the patterns and of the fallback on that
\* text, deduplicated, sorted and enriched.
SentinelIsOrdinaryText ==
  (text # None /\ IsSentinel(text)) =>
    LET found == _enhance_events_with_context(
                   _sort_events_by_time(_remove_duplicates(Candidates(nlp, text))), text, 0)
    IN /\ pc = "run"
       /\ Len(events) = Len(found)
       /\ \A i \in 1..Len(events) : Unstamped(events[i]) = Unstamped(found[i])

\* the OCR_UNAVAILABLE text was scanned: the weather pattern matched in it
SentinelScanned ==
  /\ Called(OcrUnavailable)
  /\ IsSentinel(text)
  /\ Len(events) = 1
  /\ events[1].event_type = "weather"
  /\ events[1].document_length = Len(OcrUnavailable)

\* the catalog entry 'First Line Ashore'
FirstLineAshore ==
  event_patterns[CHOOSE d \in 1..Len(event_patterns) :
                   event_patterns[d].name = "First Line Ashore"]

\* the leftmost group that is a time, None when no group is
LeftmostTime(gs) ==
  LET at == {i \in 1..Len(gs) : Truthy(gs[i]) /\ IsTimeGroup(gs[i])}
  IN IF at = {} THEN None ELSE gs[CHOOSE i \in at : \A j \in at : i <= j]

\* C17: of the groups of one match that classify as a time the leftmost one
\* is the time of the candidate, and the later ones are ignored (as for the
\* date and the location).  In "First line ashore berth no 1234 at 09:30 on
\* 31/08/2025" the groups are "1234", "09:30" and "31/08/2025".
LeftmostGroupWins ==
  Called(BerthNumbered) =>
    LET ms == finditer(FirstLineAshore.patterns[2], text)
    IN /\ Len(ms) = 1
       /\ \A i \in OfType("berthing") :
            events[i].time_raw = LeftmostTime(groups(ms[1], text))

\* "09:00 31/12/2024" and "09:00 01/01/2025"
YearEndTime ==
  <<"0", "9", ":", "0", "0", " ", "3", "1", "/", "1", "2", "/", "2", "0", "2", "4">>
NewYearTime ==
  <<"0", "9", ":", "0", "0", " ", "0", "1", "/", "0", "1", "/", "2", "0", "2", "5">>

\* the positions of the events with one start_time
At(time) == {i \in 1..Len(events) : events[i].start_time = time}

\* C20 as stated: an event with start_time "09:00 31/12/2024" is before an
\* event with start_time "09:00 01/01/2025" in the sequence returned.
YearEndBeforeNewYear ==
  \A i \in At(YearEndTime), j \in At(NewYearTime) : i < j

\* C20: an event with start_time "09:00 01/01/2025" is before an event with
\* start_time "09:00 31/12/2024" in the sequence returned: the strings are
\* compared character by character, and "0" is before "3".
NewYearBeforeYearEnd ==
  \A i \in At(YearEndTime), j \in At(NewYearTime) : j < i

\* the line of 31.12.2024 first in the document, its event second in the
\* answer
YearEndSortedLast ==
  /\ Called(JoinLines(<<CommencedYearEnd, CompletedNewYear>>))
  /\ Len(events) = 3
  /\ events[1].start_time = NewYearTime
  /\ events[2].start_time = YearEndTime
  /\ StrLess(NewYearTime, YearEndTime)

\* the matches of every pattern of every catalog entry in t
MatchCount(t) ==
  SumRange([d \in 1..Len(event_patterns) |->
              SumRange([j \in 1..Len(event_patterns[d].patterns) |->
                          Len(finditer(event_patterns[d].patterns[j], t))],
                       1, Len(event_patterns[d].patterns))],
           1, Len(event_patterns))

\* counted once for each document
Occurrences == [t \in Documents |-> MatchCount(t)] @@ <<>>

\* C18: the pattern stage has one candidate for every match of every pattern
\* of every catalog entry: the candidates handed on to the deduplication are
\* as many as the (entry, pattern, occurrence) matches in the text.
CandidatePerOccurrence ==
  (text # None /\ Len(Strip(text)) >= 10) =>
    Len(PatternCandidates(text)) = Occurrences[text]

\* the commenced line twice: two patterns of 'Loading Commenced' match, each
\* of them twice; four candidates, two events
FourCandidates ==
  /\ Called(JoinLines(<<LoadingCommenced, LoadingCommenced>>))
  /\ Len(PatternCandidates(text)) = 4
  /\ \A c \in 1..4 : PatternCandidates(text)[c].event = "Loading Commenced"
  /\ Len(events) = 2

\* a group that is there: not None and not ''
Filled(g) == g # None /\ Len(g) > 0

Timed(e) == Truthy(Get(e, "timestamp"))

\* how often the event v stands in the list s
CountOf(s, v) == Cardinality({i \in 1..Len(s) : s[i] = v})

\* C21: the temporal sorter is a stable partition and a permutation: no
\* event is added, dropped or changed, every timed event stands before every
\* untimed one, the untimed events keep their input order, and so do the
\* timed events of one start time.
SortIsStablePartition ==
  pc = "sorted" =>
    /\ Len(y) = Len(x)
    /\ \A v \in SortPool : CountOf(y, v) = CountOf(x, v)
    /\ \A i, j \in 1..Len(y) : (i < j /\ Timed(y[j])) => Timed(y[i])
    /\ SelectSeq(y, LAMBDA e : ~Timed(e)) = SelectSeq(x, LAMBDA e : ~Timed(e))
    /\ \A time \in {Nine, Ten} :
         SelectSeq(y, LAMBDA e : Timed(e) /\ e.timestamp = time)
           = SelectSeq(x, LAMBDA e : Timed(e) /\ e.timestamp = time)

\* an untimed event first, then two events of 10:00 under different names
\* and one of 09:00: the one of 09:00 moves to the front, the two of 10:00
\* stay as they were, the untimed one goes last
SortedEqualTimes ==
  /\ pc = "sorted"
  /\ x = << [event |-> "Customs Operation"],
            [event |-> "Loading Completed", timestamp |-> Ten],
            [event |-> "Loading Commenced", timestamp |-> Ten],
            [event |-> "Loading Commenced", timestamp |-> Nine] >>
  /\ y = << [event |-> "Loading Commenced", timestamp |-> Nine],
            [event |-> "Loading Completed", timestamp |-> Ten],
            [event |-> "Loading Commenced", timestamp |-> Ten],
            [event |-> "Customs Operation"] >>

\* C22: _remove_duplicates returns the candidates that are the first of their
\* (event_type, start_time, location) key, in the order of the input; the
\* pattern stage's candidates come first, so no fallback event is kept whose
\* key a pattern-based candidate has.
FirstOfEachKey ==
  (text # None /\ Len(Strip(text)) >= 10) =>
    LET cs == Candidates(nlp, text)
        d == _remove_duplicates(cs)
        first == {i \in 1..Len(cs) : \A j \in 1..(i - 1) : KeyOf(cs[j]) # KeyOf(cs[i])}
        at == Ascending(first, 1, Len(cs))
    IN /\ Len(d) = Cardinality(first)
       /\ \A k \in 1..Len(d) : d[k] = cs[at[k]]
       /\ \A k \in 1..Len(d), c \in 1..Len(cs) :
            (d[k].extraction_method = "nlp_context"
               /\ cs[c].extraction_method = "pattern_matching")
              => KeyOf(cs[c]) # KeyOf(d[k])

\* the commenced line and the customs line, an engine that has one sentence
\* for a line: the fallback's cargo candidate has the key of the bare
\* 'Loading Commenced' candidate and is dropped, its customs candidate stays
FallbackLostCollision ==
  /\ Called(CargoThenCustoms)
  /\ nlp = "lines"
  /\ \E c \in 1..Len(Candidates(nlp, text)) :
       /\ Candidates(nlp, text)[c].extraction_method = "nlp_context"
       /\ Candidates(nlp, text)[c].event_type = "cargo"
  /\ \A i \in OfType("cargo") : events[i].extraction_method = "pattern_matching"
  /\ \E i \in OfType("cargo") : Bare(events[i])
  /\ \E i \in OfType("customs") : events[i].extraction_method = "nlp_context"

\* the event types of the categories in their fixed order: arrival,
\* departure, berthing, loading, discharging, pilot, customs, weather
CategoryOrder ==
  <<"arrival", "departure", "berthing", "cargo", "cargo", "pilot", "customs", "weather">>

\* the categories with a keyword in the sentence
Matching(s) ==
  {i \in 1..Len(context_keywords) : ContainsAny(Lower(s), context_keywords[i].keywords)}

\* C23: with the engine there, the fallback has one candidate for every
\* sentence that has an operation indicator and a keyword of a category, in
\* the order of the sentences, and none for the other sentences; the
\* candidate's event_type is the first category in the fixed order with a
\* keyword in the sentence, its confidence 0.70, its start_time and location
\* None, its remarks the sentence, its extraction_method nlp_context.
OneCandidatePerSentence ==
  (text # None /\ Len(Strip(text)) >= 10 /\ nlp \in {"lines", "whole"}) =>
    LET ss == sents(nlp, text)
        at == Ascending({k \in 1..Len(ss) :
                           /\ ContainsAny(Lower(ss[k]), operation_indicators)
                           /\ Matching(ss[k]) # {}}, 1, Len(ss))
        fs == _extract_with_nlp(nlp, text)
    IN /\ Len(context_keywords) = Len(CategoryOrder)
       /\ Len(fs) = Len(at)
       /\ \A k \in 1..Len(fs) :
            LET s == ss[at[k]]
                first == CHOOSE i \in Matching(s) : \A j \in Matching(s) : i <= j
            IN /\ fs[k].event_type = CategoryOrder[first]
               /\ fs[k].confidence = 70
               /\ fs[k].start_time = None
               /\ fs[k].location = None
               /\ fs[k].remarks = s
               /\ fs[k].extraction_method = "nlp_context"

\* the commenced line and the customs line as one sentence: it has keywords
\* of loading, of customs and of weather ('delay'), and the one candidate is
\* of type cargo
FirstCategoryTaken ==
  /\ Called(CargoThenCustoms)
  /\ nlp = "whole"
  /\ Cardinality(Matching(text)) = 3
  /\ Len(_extract_with_nlp(nlp, text)) = 1
  /\ _extract_with_nlp(nlp, text)[1].event_type = "cargo"
  /\ _extract_with_nlp(nlp, text)[1].remarks = text

\* the fields _enhance_events_with_context writes
EnrichmentFields == {"vessel", "port", "document_length", "extraction_timestamp"}

\* the event as it was before the enrichment
Unenriched(e) == [f \in DOMAIN e \ EnrichmentFields |-> e[f]]

\* C24: after the enrichment all events of one call have the same vessel and
\* the same port, or all of them lack the field; a name that is there has
\* more than 2 characters; every event has document_length equal to the
\* length of the text; the events are those that were sorted, in that order.
EnrichmentUniform ==
  (pc = "run" /\ text # None /\ Len(Strip(text)) >= 10) =>
    /\ \A i, j \in 1..Len(events), f \in {"vessel", "port"} :
         /\ f \in DOMAIN events[i] <=> f \in DOMAIN events[j]
         /\ f \in DOMAIN events[i] => events[i][f] = events[j][f] /\ Len(events[i][f]) > 2
    /\ \A i \in 1..Len(events) : events[i].document_length = Len(text)
    /\ Len(events) = Len(Arranged[text][nlp])
    /\ \A i \in 1..Len(events) : Unenriched(events[i]) = Arranged[text][nlp][i]

\* a vessel line, a port line and the commenced line: both events of the
\* call carry 'MV TEST', 'GOA' and the length 64
NamesOnBothEvents ==
  /\ Called(JoinLines(<<VesselName, PortName, LoadingCommenced>>))
  /\ Len(events) = 2
  /\ \A i \in 1..2 :
       /\ events[i].vessel = <<"M", "V", " ", "T", "E", "S", "T">>
       /\ events[i].port = <<"G", "O", "A">>
       /\ events[i].document_length = 64

\* C25: one extract_events call looks the vessel name up in the text once at
\* most, however many events it returns.
NamesLookedUpOnce ==
  lookups <= 1

\* C26: with the calls of several threads interleaved on one extractor, every
\* call that has returned has returned what it returns when it runs alone
\* (extraction_timestamp apart), and the catalog and the keyword table are
\* as they were.
CallsDoNotInterfere ==
  /\ y.self = Tables
  /\ \A th \in Threads :
       pc[th] = "done" =>
         IF x[th].op = "extract_events"
         THEN LET alone == extract_events(nlp, x[th].arg, 0)
              IN /\ Len(z[th]) = Len(alone)
                 /\ \A i \in 1..Len(alone) : Unstamped(z[th][i]) = Unstamped(alone[i])
         ELSE z[th] = get_extraction_summary(x[th].arg)

\* two threads are done: one has extracted the commenced line's two
\* events, the other has summarized three events of two types
TwoThreadsReturned ==
  /\ \A th \in Threads : pc[th] = "done"
  /\ x[1].op = "extract_events"
  /\ x[1].arg = LoadingCommenced
  /\ Len(z[1]) = 2
  /\ x[2].op = "get_extraction_summary"
  /\ Len(x[2].arg) = 3
  /\ z[2].total_events = 3
  /\ z[2].event_types = [type \in {"cargo", "customs"} |-> IF type = "cargo" THEN 2 ELSE 1]

\* the patterns the groups of p capture
Captured(p) ==
  IF p.re.k = "seq"
  THEN {p.re.xs[i].r : i \in {j \in 1..Len(p.re.xs) : p.re.xs[j].k = "cap"}}
  ELSE {}

FromFallback == {i \in 1..Len(events) : events[i].extraction_method = "nlp_context"}

\* C28: the sequence returned has at most one nlp_context event of an
\* event_type, and none of a type of which it has a pattern-based event
\* without start_time and location.
OneFallbackEventPerType ==
  (pc = "run" /\ text # None /\ Len(Strip(text)) >= 10) =>
    /\ \A i, j \in FromFallback : events[i].event_type = events[j].event_type => i = j
    /\ \A i \in FromFallback, j \in 1..Len(events) \ FromFallback :
         Bare(events[j]) => events[j].event_type # events[i].event_type

\* the customs line twice, a sentence for a line: two candidates of the
\* fallback, both of type customs, one event
CustomsTwiceCollapsed ==
  /\ Called(JoinLines(<<CustomsDelayed, CustomsDelayed>>))
  /\ nlp = "lines"
  /\ Len(_extract_with_nlp(nlp, text)) = 2
  /\ Len(events) = 1
  /\ events[1].event_type = "customs"
  /\ FromFallback = {1}

WindInsideWindows ==
  (pc = "run" /\ Called(OcrUnavailable)) =>
    /\ Len(events) = 1
    /\ events[1].event_type = "weather"
    /\ events[1].start_time = None
    /\ events[1].confidence = 80
    /\ events[1].raw_match = <<"W", "i", "n", "d">>
    /\ \E i \in 1..Len(text) :
         LitAt(text, i, <<"W", "i", "n", "d", "o", "w", "s">>)

\* the call on that text has returned the 'Weather Delay' event of the
\* four characters 'Wind', an entry of base 0.90
WindMatched ==
  /\ Called(OcrUnavailable)
  /\ Len(events) = 1
  /\ events[1].event = "Weather Delay"
  /\ events[1].raw_match = <<"W", "i", "n", "d">>
  /\ events[1].confidence = 80
  /\ events[1].extraction_method = "pattern_matching"
=============================================================================
